---- MODULE Spec2Model ----
(***************************************************************************)
(* HTTP processing core of the proxy: the incremental message parser       *)
(* (http_msg_analyzer, http_parse_reqline, http_parse_stsline), the        *)
(* connection mode selection (http_process_req_common,                     *)
(* http_process_res_common) and the request/response state machine pair    *)
(* (http_sync_req_state, http_sync_res_state, http_resync_states).         *)
(***************************************************************************)
EXTENDS Integers, Sequences, FiniteSets, TLC

(***************************************************************************)
(* Bounds of the model.                                                    *)
(***************************************************************************)
\* every byte stream up to this length is fed to the parser
MaxLen == 4
\* longest piece delivered by one read
MaxPiece == 3
\* number of slots of the header index (global.tune.max_http_hdr)
HdrIdxSize == 3
\* largest amount of pending output modelled in a buffer
MaxOut == 1
\* calls of the sync functions allowed to one resync loop
MaxSync == 8
\* transactions a session goes through
MaxTxn == 1
\* bytes a buffer holds while its header block is edited
BufSize == 24
\* size of the storage of the request buffer and global.tune.maxrewrite,
\* where the position of the input in the storage is followed
RingSize == 11
MaxRewrite == 3
\* requests a client sends on one connection
MaxReqs == 3
\* bytes of a chunk the core emits
MaxChunk == 2
\* global.tune.bufsize, in the specification of the compression
TuneBufSize == 64
\* values of one header in a message
MaxValues == 3
\* bytes the inspected buffer takes before it is full, and the time, in
\* ticks, an inspection is followed
MaxData == 2
MaxTime == 3
\* the largest compression level and rate, in bytes per second, of a setting
MaxLevel == 3
MaxRate == 5

(***************************************************************************)
(* Bytes.  One representative per character class used by the parser:      *)
(*   "G"  a token char that is not a version char       (e.g. 'G')         *)
(*   "H"  a token char that is also a version char      ('H','T','P',0-9)  *)
(*   "/"  a version char that is a separator            ('/')              *)
(*   ":"  a separator that is neither                   (':')              *)
(*   "SP" space or tab (the parser never tells them apart), "CR", "LF"     *)
(*   "HI" a byte >= 128                                                    *)
(***************************************************************************)
Bytes == {"G", "H", "/", ":", "SP", "CR", "LF", "HI"}

HTTP_IS_SPHT(ch) == ch \in {"SP", "HT"}

HTTP_IS_CRLF(ch) == ch \in {"CR", "LF"}

HTTP_IS_LWS(ch) == ch \in {"SP", "HT", "CR", "LF"}

HTTP_IS_TOKEN(ch) == ch \in {"G", "H"}

HTTP_IS_VER_TOKEN(ch) == ch \in {"H", "/"}

\* (unsigned char)(*ptr - 33) <= 93
IsUriChar(ch) == ch \in {"G", "H", "/", ":"}

\* (unsigned char)*ptr >= 128
IsHighChar(ch) == ch = "HI"

(***************************************************************************)
(* Header index (struct hdr_idx): an arena of entries {len, cr, next},     *)
(* entry 0 being the sentinel.                                             *)
(***************************************************************************)
NoEntry == [len |-> 0, cr |-> 0, next |-> 0]

EmptyIdx == [v |-> [k \in 0..(HdrIdxSize - 1) |-> NoEntry],
             used |-> 1, last |-> 1, tail |-> 0]

hdr_idx_init(idx) ==
    [idx EXCEPT !.v[0].next = 0, !.tail = 0, !.used = 1, !.last = 1]

hdr_idx_set_start(idx, len, cr) ==
    [idx EXCEPT !.v[0].len = len, !.v[0].cr = cr]

\* first free slot once the arena has been filled up to <last>
FreeSlot(idx) ==
    IF idx.last < HdrIdxSize THEN idx.last
    ELSE CHOOSE k \in 1..(HdrIdxSize - 1) :
            /\ idx.v[k].len = 0
            /\ \A j \in 1..(k - 1) : idx.v[j].len # 0

\* returns [ok, idx]; ok = FALSE stands for the -1 of a full index
hdr_idx_add(len, cr, idx, after) ==
    IF idx.used = HdrIdxSize
    THEN [ok |-> FALSE, idx |-> idx]
    ELSE LET new == FreeSlot(idx)
         IN [ok |-> TRUE,
             idx |-> [idx EXCEPT
                        !.v[new] = [len |-> len, cr |-> cr,
                                    next |-> idx.v[after].next],
                        !.v[after].next = new,
                        !.last = IF idx.last < HdrIdxSize THEN idx.last + 1
                                 ELSE idx.last,
                        !.used = idx.used + 1,
                        !.tail = new]]

(***************************************************************************)
(* HTTP message (struct http_msg).  sl_rq_* and sl_st_* are the two        *)
(* members of the start line union.                                        *)
(***************************************************************************)
InitMsg(st, ep) ==
    [msg_state |-> st, next |-> 0, sol |-> 0, eoh |-> 0, sov |-> 0,
     eol |-> 0, err_pos |-> ep,
     rq_l |-> 0, rq_m_l |-> 0, rq_u |-> 0, rq_u_l |-> 0, rq_v |-> 0,
     rq_v_l |-> 0,
     st_l |-> 0, st_v_l |-> 0, st_c |-> 0, st_c_l |-> 0, st_r |-> 0,
     st_r_l |-> 0]

(***************************************************************************)
(* One activation of the parser.  <lbl> is the label the control is at,    *)
(* <state> the local variable of that name, <ptr> the offset of the read   *)
(* pointer from buf->p, <buf> the input bytes from buf->p, <o> the amount  *)
(* of pending output, <m> the message, <idx> the header index.  <del> is   *)
(* the number of bytes the activation deleted at the head of the buffer    *)
(* and <lo> the lowest offset it read a byte at, counted from where buf->p *)
(* was on entry.                                                           *)
(***************************************************************************)
Cur(a) == a.buf[a.ptr + 1]

\* http_msg_ood that forgets to store where it stopped
MsgOodNoNext(a) ==
    [a EXCEPT !.m.msg_state = a.state, !.done = TRUE]

\* http_msg_ood: (also the common exit of the two start line parsers)
MsgOod(a) ==
    [a EXCEPT !.m.msg_state = a.state, !.m.next = a.ptr, !.done = TRUE]

\* invalid message whose position is not stored
MsgInvalidNoNext(a) ==
    [a EXCEPT !.m.msg_state = "ERROR", !.done = TRUE]

\* http_msg_invalid:
MsgInvalid(a) ==
    [a EXCEPT !.m.msg_state = "ERROR", !.m.next = a.ptr, !.done = TRUE]

EAT_AND_JUMP_OR_RETURN(a, good, st) ==
    IF a.ptr + 1 < Len(a.buf)
    THEN [a EXCEPT !.ptr = a.ptr + 1, !.lbl = good]
    ELSE MsgOod([a EXCEPT !.ptr = a.ptr + 1, !.state = st])

Goto(a, l) == [a EXCEPT !.lbl = l]

\* bi_fast_delete(buf, n): the first n input bytes are dropped, buf->p moves
bi_fast_delete(a, n) ==
    [a EXCEPT !.buf = SubSeq(a.buf, n + 1, Len(a.buf)), !.ptr = a.ptr - n,
              !.del = a.del + n]

\* empty lines that wait for the output, with the test of buf->o forgotten
OutputNeverPending(a) == FALSE

\* "we can only do this when o=0": empty lines precede the start of the
\* message and the buffer still holds output
OutputPending(a) == a.ptr # 0 /\ a.o # 0

\* the bytes [from, to) of the buffer are overwritten with spaces
Blank(buf, from, to) ==
    [k \in 1..Len(buf) |-> IF k - 1 >= from /\ k - 1 < to THEN "SP" ELSE buf[k]]

(***************************************************************************)
(* http_parse_reqline: one step at label <a.lbl>, which is one of RQMETH,  *)
(* RQMETH_SP, RQURI, RQURI_SP, RQVER.  The label "rqline_eol" stands for   *)
(* the return of <ptr> to http_msg_analyzer.                               *)
(***************************************************************************)
\* http_msg_rqline_eol: the line is complete, back in http_msg_analyzer
ReqLineEol(a) ==
    Goto([a EXCEPT !.m.rq_l = a.ptr - a.m.sol], "rqline_eol")

http_parse_reqline(a) ==
    LET ch == Cur(a) IN
    CASE a.lbl = "RQMETH" ->
           IF HTTP_IS_TOKEN(ch)
           THEN EAT_AND_JUMP_OR_RETURN(a, "RQMETH", "RQMETH")
           ELSE IF HTTP_IS_SPHT(ch)
           THEN EAT_AND_JUMP_OR_RETURN([a EXCEPT !.m.rq_m_l = a.ptr],
                                       "RQMETH_SP", "RQMETH_SP")
           ELSE IF HTTP_IS_CRLF(ch)
           THEN \* HTTP 0.9 request
                ReqLineEol([a EXCEPT !.m.rq_m_l = a.ptr, !.m.rq_u = a.ptr,
                                     !.m.rq_u_l = 0, !.m.rq_v = a.ptr,
                                     !.m.rq_v_l = 0])
           ELSE MsgInvalid(a)
      [] a.lbl = "RQMETH_SP" ->
           IF ~HTTP_IS_LWS(ch)
           THEN Goto([a EXCEPT !.m.rq_u = a.ptr], "RQURI")
           ELSE IF HTTP_IS_SPHT(ch)
           THEN EAT_AND_JUMP_OR_RETURN(a, "RQMETH_SP", "RQMETH_SP")
           ELSE \* http_msg_req09_uri
                ReqLineEol([a EXCEPT !.m.rq_u = a.ptr, !.m.rq_u_l = 0,
                                     !.m.rq_v = a.ptr, !.m.rq_v_l = 0])
      [] a.lbl = "RQURI" ->
           IF IsUriChar(ch)
           THEN EAT_AND_JUMP_OR_RETURN(a, "RQURI", "RQURI")
           ELSE IF HTTP_IS_SPHT(ch)
           THEN EAT_AND_JUMP_OR_RETURN(
                    [a EXCEPT !.m.rq_u_l = a.ptr - a.m.rq_u],
                    "RQURI_SP", "RQURI_SP")
           ELSE IF IsHighChar(ch)
           THEN IF a.m.err_pos < -1
                THEN MsgInvalid([a EXCEPT !.m.err_pos = a.ptr])
                ELSE EAT_AND_JUMP_OR_RETURN(
                         [a EXCEPT !.m.err_pos =
                              IF a.m.err_pos = -1 THEN a.ptr ELSE @],
                         "RQURI", "RQURI")
           ELSE IF HTTP_IS_CRLF(ch)
           THEN \* http_msg_req09_uri_e
                ReqLineEol([a EXCEPT !.m.rq_u_l = a.ptr - a.m.rq_u,
                                     !.m.rq_v = a.ptr, !.m.rq_v_l = 0])
           ELSE \* invalid_char
                MsgInvalid([a EXCEPT !.m.err_pos = a.ptr])
      [] a.lbl = "RQURI_SP" ->
           IF ~HTTP_IS_LWS(ch)
           THEN Goto([a EXCEPT !.m.rq_v = a.ptr], "RQVER")
           ELSE IF HTTP_IS_SPHT(ch)
           THEN EAT_AND_JUMP_OR_RETURN(a, "RQURI_SP", "RQURI_SP")
           ELSE \* http_msg_req09_ver
                ReqLineEol([a EXCEPT !.m.rq_v = a.ptr, !.m.rq_v_l = 0])
      [] a.lbl = "RQVER" ->
           IF HTTP_IS_VER_TOKEN(ch)
           THEN EAT_AND_JUMP_OR_RETURN(a, "RQVER", "RQVER")
           ELSE IF HTTP_IS_CRLF(ch)
           THEN ReqLineEol([a EXCEPT !.m.rq_v_l = a.ptr - a.m.rq_v])
           ELSE MsgInvalid(a)

(***************************************************************************)
(* http_parse_stsline: one step at label RPVER, RPVER_SP, RPCODE,          *)
(* RPCODE_SP or RPREASON.  "rpline_eol" is the return to the caller.       *)
(***************************************************************************)
\* http_msg_rpline_eol:
StsLineEol(a) ==
    Goto([a EXCEPT !.m.st_l = a.ptr - a.m.sol], "rpline_eol")

\* http_msg_rsp_reason:
StsNoReason(a) ==
    StsLineEol([a EXCEPT !.m.st_r = a.ptr, !.m.st_r_l = 0])

http_parse_stsline(a) ==
    LET ch == Cur(a) IN
    CASE a.lbl = "RPVER" ->
           IF HTTP_IS_VER_TOKEN(ch)
           THEN EAT_AND_JUMP_OR_RETURN(a, "RPVER", "RPVER")
           ELSE IF HTTP_IS_SPHT(ch)
           THEN EAT_AND_JUMP_OR_RETURN([a EXCEPT !.m.st_v_l = a.ptr],
                                       "RPVER_SP", "RPVER_SP")
           ELSE MsgInvalid(a)
      [] a.lbl = "RPVER_SP" ->
           IF ~HTTP_IS_LWS(ch)
           THEN Goto([a EXCEPT !.m.st_c = a.ptr], "RPCODE")
           ELSE IF HTTP_IS_SPHT(ch)
           THEN EAT_AND_JUMP_OR_RETURN(a, "RPVER_SP", "RPVER_SP")
           ELSE MsgInvalid(a)
      [] a.lbl = "RPCODE" ->
           IF ~HTTP_IS_LWS(ch)
           THEN EAT_AND_JUMP_OR_RETURN(a, "RPCODE", "RPCODE")
           ELSE IF HTTP_IS_SPHT(ch)
           THEN EAT_AND_JUMP_OR_RETURN(
                    [a EXCEPT !.m.st_c_l = a.ptr - a.m.st_c],
                    "RPCODE_SP", "RPCODE_SP")
           ELSE StsNoReason([a EXCEPT !.m.st_c_l = a.ptr - a.m.st_c])
      [] a.lbl = "RPCODE_SP" ->
           IF ~HTTP_IS_LWS(ch)
           THEN Goto([a EXCEPT !.m.st_r = a.ptr], "RPREASON")
           ELSE IF HTTP_IS_SPHT(ch)
           THEN EAT_AND_JUMP_OR_RETURN(a, "RPCODE_SP", "RPCODE_SP")
           ELSE StsNoReason(a)
      [] a.lbl = "RPREASON" ->
           IF ~HTTP_IS_CRLF(ch)
           THEN EAT_AND_JUMP_OR_RETURN(a, "RPREASON", "RPREASON")
           ELSE StsLineEol([a EXCEPT !.m.st_r_l = a.ptr - a.m.st_r])

(***************************************************************************)
(* http_msg_analyzer.  AnalyzerStep is the code at one label, for a read   *)
(* pointer inside the input; http_msg_analyzer runs the steps until the    *)
(* function returns.                                                       *)
(***************************************************************************)
ReqLineLabels == {"RQMETH", "RQMETH_SP", "RQURI", "RQURI_SP", "RQVER"}

StsLineLabels == {"RPVER", "RPVER_SP", "RPCODE", "RPCODE_SP", "RPREASON"}

\* http_msg_last_lf:
LastLf(a) ==
    IF Cur(a) # "LF" THEN MsgInvalid(a)
    ELSE [a EXCEPT !.ptr = a.ptr + 1,
                   !.m.sov = a.ptr + 1, !.m.next = a.ptr + 1,
                   !.m.eoh = a.m.sol, !.m.sol = 0,
                   !.m.msg_state = "BODY", !.done = TRUE]

\* http_msg_complete_header:
CompleteHeader(a) ==
    LET r == hdr_idx_add(a.m.eol - a.m.sol,
                         IF a.buf[a.m.eol + 1] = "CR" THEN 1 ELSE 0,
                         a.idx, a.idx.tail)
        rd == [a EXCEPT !.lo = IF a.del + a.m.eol < @ THEN a.del + a.m.eol
                                ELSE @]
        b == [rd EXCEPT !.idx = r.idx, !.m.sol = a.ptr]
    IN IF ~r.ok THEN MsgInvalid(rd)
       ELSE IF ~HTTP_IS_CRLF(Cur(a)) THEN Goto(b, "HDR_NAME")
       ELSE IF Cur(a) = "CR"
       THEN EAT_AND_JUMP_OR_RETURN(b, "LAST_LF", "LAST_LF")
       ELSE Goto(b, "LAST_LF")

\* a message in error is parsed again as a header block
AnalyzerErrorResume(a) ==
    [a EXCEPT !.state = "HDR_FIRST", !.lbl = "HDR_FIRST"]

\* case HTTP_MSG_ERROR: break;
AnalyzerError(a) == MsgOod(a)

AnalyzerStep(a) ==
    LET ch == Cur(a) IN
    CASE a.lbl = "RPBEFORE" ->
           IF HTTP_IS_TOKEN(ch)
           THEN IF OutputPending(a)
                THEN MsgOod(a)
                ELSE LET b == IF a.ptr # 0 THEN bi_fast_delete(a, a.ptr)
                                           ELSE a
                     IN [b EXCEPT !.m.sol = 0, !.m.st_l = 0,
                                  !.idx = hdr_idx_init(a.idx),
                                  !.state = "RPVER", !.lbl = "RPVER"]
           ELSE IF ~HTTP_IS_CRLF(ch) THEN MsgInvalid(a)
           ELSE IF ch = "LF"
           THEN EAT_AND_JUMP_OR_RETURN(a, "RPBEFORE", "RPBEFORE")
           ELSE EAT_AND_JUMP_OR_RETURN(a, "RPBEFORE_CR", "RPBEFORE_CR")
      [] a.lbl = "RPBEFORE_CR" ->
           IF ch # "LF" THEN MsgInvalid(a)
           ELSE EAT_AND_JUMP_OR_RETURN(a, "RPBEFORE", "RPBEFORE")
      [] a.lbl \in StsLineLabels -> http_parse_stsline(a)
      [] a.lbl = "rpline_eol" ->
           LET b == [a EXCEPT
                       !.idx = hdr_idx_set_start(a.idx, a.m.st_l,
                                   IF ch = "CR" THEN 1 ELSE 0),
                       !.m.sol = a.ptr]
           IN IF ch = "CR"
              THEN EAT_AND_JUMP_OR_RETURN(b, "RPLINE_END", "RPLINE_END")
              ELSE Goto(b, "RPLINE_END")
      [] a.lbl = "RPLINE_END" ->
           IF ch # "LF" THEN MsgInvalid(a)
           ELSE EAT_AND_JUMP_OR_RETURN(a, "HDR_FIRST", "HDR_FIRST")
      [] a.lbl = "RQBEFORE" ->
           IF HTTP_IS_TOKEN(ch)
           THEN IF OutputPending(a)
                THEN MsgOod(a)
                ELSE LET b == IF a.ptr # 0 THEN bi_fast_delete(a, a.ptr)
                                           ELSE a
                     IN [b EXCEPT !.m.sol = 0, !.m.rq_l = 0,
                                  !.state = "RQMETH", !.lbl = "RQMETH"]
           ELSE IF ~HTTP_IS_CRLF(ch) THEN MsgInvalid(a)
           ELSE IF ch = "LF"
           THEN EAT_AND_JUMP_OR_RETURN(a, "RQBEFORE", "RQBEFORE")
           ELSE EAT_AND_JUMP_OR_RETURN(a, "RQBEFORE_CR", "RQBEFORE_CR")
      [] a.lbl = "RQBEFORE_CR" ->
           IF ch # "LF" THEN MsgInvalid(a)
           ELSE EAT_AND_JUMP_OR_RETURN(a, "RQBEFORE", "RQBEFORE")
      [] a.lbl \in ReqLineLabels -> http_parse_reqline(a)
      [] a.lbl = "rqline_eol" ->
           LET b == [a EXCEPT
                       !.idx = hdr_idx_set_start(a.idx, a.m.rq_l,
                                   IF ch = "CR" THEN 1 ELSE 0),
                       !.m.sol = a.ptr]
           IN IF ch = "CR"
              THEN EAT_AND_JUMP_OR_RETURN(b, "RQLINE_END", "RQLINE_END")
              ELSE Goto(b, "RQLINE_END")
      [] a.lbl = "RQLINE_END" ->
           IF a.m.rq_v_l = 0 THEN Goto(a, "LAST_LF")
           ELSE IF ch # "LF" THEN MsgInvalid(a)
           ELSE EAT_AND_JUMP_OR_RETURN(a, "HDR_FIRST", "HDR_FIRST")
      [] a.lbl = "HDR_FIRST" ->
           LET b == [a EXCEPT !.m.sol = a.ptr]
           IN IF ~HTTP_IS_CRLF(ch) THEN Goto(b, "HDR_NAME")
              ELSE IF ch = "CR"
              THEN EAT_AND_JUMP_OR_RETURN(b, "LAST_LF", "LAST_LF")
              ELSE Goto(b, "LAST_LF")
      [] a.lbl = "HDR_NAME" ->
           IF HTTP_IS_TOKEN(ch)
           THEN EAT_AND_JUMP_OR_RETURN(a, "HDR_NAME", "HDR_NAME")
           ELSE IF ch = ":"
           THEN EAT_AND_JUMP_OR_RETURN(a, "HDR_L1_SP", "HDR_L1_SP")
           ELSE IF a.m.err_pos < -1 \/ ch = "LF" THEN MsgInvalid(a)
           ELSE EAT_AND_JUMP_OR_RETURN(
                    [a EXCEPT !.m.err_pos =
                         IF a.m.err_pos = -1 THEN a.ptr ELSE @],
                    "HDR_NAME", "HDR_NAME")
      [] a.lbl = "HDR_L1_SP" ->
           IF HTTP_IS_SPHT(ch)
           THEN EAT_AND_JUMP_OR_RETURN(a, "HDR_L1_SP", "HDR_L1_SP")
           ELSE LET b == [a EXCEPT !.m.sov = a.ptr]
                IN IF ~HTTP_IS_CRLF(ch) THEN Goto(b, "HDR_VAL")
                   ELSE IF ch = "CR"
                   THEN EAT_AND_JUMP_OR_RETURN(b, "HDR_L1_LF", "HDR_L1_LF")
                   ELSE Goto(b, "HDR_L1_LF")
      [] a.lbl = "HDR_L1_LF" ->
           IF ch # "LF" THEN MsgInvalid(a)
           ELSE EAT_AND_JUMP_OR_RETURN(a, "HDR_L1_LWS", "HDR_L1_LWS")
      [] a.lbl = "HDR_L1_LWS" ->
           IF HTTP_IS_SPHT(ch)
           THEN \* replace HT,CR,LF with spaces
                Goto([a EXCEPT !.buf = Blank(a.buf, a.m.sov, a.ptr),
                               !.m.sov = IF a.m.sov < a.ptr THEN a.ptr ELSE @],
                     "HDR_L1_SP")
           ELSE \* we had a header consisting only in spaces
                CompleteHeader([a EXCEPT !.m.eol = a.m.sov])
      [] a.lbl = "HDR_VAL" ->
           IF ~HTTP_IS_CRLF(ch)
           THEN EAT_AND_JUMP_OR_RETURN(a, "HDR_VAL", "HDR_VAL")
           ELSE LET b == [a EXCEPT !.m.eol = a.ptr]
                IN IF ch = "CR"
                   THEN EAT_AND_JUMP_OR_RETURN(b, "HDR_L2_LF", "HDR_L2_LF")
                   ELSE Goto(b, "HDR_L2_LF")
      [] a.lbl = "HDR_L2_LF" ->
           IF ch # "LF" THEN MsgInvalid(a)
           ELSE EAT_AND_JUMP_OR_RETURN(a, "HDR_L2_LWS", "HDR_L2_LWS")
      [] a.lbl = "HDR_L2_LWS" ->
           IF HTTP_IS_SPHT(ch)
           THEN \* LWS: replace HT,CR,LF with spaces
                Goto([a EXCEPT !.buf = Blank(a.buf, a.m.eol, a.ptr),
                               !.m.eol = IF a.m.eol < a.ptr THEN a.ptr ELSE @],
                     "HDR_VAL")
           ELSE CompleteHeader(a)
      [] a.lbl = "LAST_LF" -> LastLf(a)
      [] a.lbl = "ERROR" -> AnalyzerError(a)
      [] OTHER -> \* a state the switch does not handle
           MsgOod(a)

RECURSIVE AnalyzerRun(_)
AnalyzerRun(a) == IF a.done THEN a ELSE AnalyzerRun(AnalyzerStep(a))

\* returns [m, idx, buf, lo, del]: the message, the index, the input bytes
\* and what the activation read and deleted
http_msg_analyzer(msg, idx, buf, o) ==
    LET a0 == [lbl |-> msg.msg_state, state |-> msg.msg_state,
               ptr |-> msg.next, buf |-> buf, o |-> o, idx |-> idx,
               m |-> msg, done |-> FALSE, lo |-> msg.next, del |-> 0]
        r == IF a0.ptr >= Len(buf) THEN MsgOod(a0) ELSE AnalyzerRun(a0)
    IN [m |-> r.m, idx |-> r.idx, buf |-> r.buf, lo |-> r.lo, del |-> r.del]

(***************************************************************************)
(* Session: proxies, transaction, channels.                                *)
(***************************************************************************)
\* the four "option" bits that take part in the connection mode
ModeOpts == {"PR_O_KEEPALIVE", "PR_O_SERVER_CLO", "PR_O_HTTP_CLOSE",
             "PR_O_FORCE_CLO"}

Proxies ==
    [options  : SUBSET (ModeOpts \cup {"PR_O_ABRT_CLOSE"}),
     options2 : SUBSET {"PR_O2_FAKE_KA"},
     state    : {"PR_STREADY", "PR_STSTOPPED"}]

\* TX_CON_WANT_TUN < TX_CON_WANT_KAL < TX_CON_WANT_SCL < TX_CON_WANT_CLO
WantRank(m) ==
    CASE m = "TUN" -> 0 [] m = "KAL" -> 1 [] m = "SCL" -> 2 [] m = "CLO" -> 3

\* the message states a transaction goes through once the parser is done
\* with the headers, in the order of their values
HTTP_MSG == <<"RQBEFORE", "RPBEFORE", "ERROR", "BODY", "100_SENT", "DATA",
              "DONE", "CLOSING", "CLOSED", "TUNNEL">>

MsgRank(st) == CHOOSE k \in 1..Len(HTTP_MSG) : HTTP_MSG[k] = st

\* analysers of each channel, in the order they are called
ReqAnalysers == <<"AN_REQ_WAIT_HTTP", "AN_REQ_HTTP_PROCESS_FE",
                  "AN_REQ_SWITCHING_RULES", "AN_REQ_HTTP_PROCESS_BE",
                  "AN_REQ_HTTP_INNER", "AN_REQ_HTTP_XFER_BODY">>

ResAnalysers == <<"AN_RES_WAIT_HTTP", "AN_RES_HTTP_PROCESS_BE",
                  "AN_RES_HTTP_XFER_BODY">>

\* the analyser a channel calls next: the first one of its mask
NextAnalyser(order, an) ==
    IF an = {} THEN "none"
    ELSE order[CHOOSE k \in 1..Len(order) :
                 /\ order[k] \in an
                 /\ \A j \in 1..(k - 1) : order[j] \notin an]

\* s->listener->analysers of an HTTP frontend
ListenerAnalysers == {"AN_REQ_WAIT_HTTP", "AN_REQ_HTTP_PROCESS_FE",
                      "AN_REQ_SWITCHING_RULES"}

\* http_init_txn
InitTxn ==
    [flags |-> {}, con_want |-> "TUN", status |-> -1, meth |-> "NONE",
     req |-> [msg_state |-> "RQBEFORE", flags |-> {}, conn |-> {}],
     rsp |-> [msg_state |-> "RPBEFORE", flags |-> {}, conn |-> {}]]

\* a session right after the frontend accepted it
InitSession(fe) ==
    [fe  |-> fe,
     be  |-> fe,
     txn |-> InitTxn,
     req |-> [flags |-> {}, analysers |-> ListenerAnalysers, o |-> 0],
     rep |-> [flags |-> {}, analysers |-> {}, o |-> 0],
     srv |-> [state |-> "SI_ST_INI", flags |-> {}]]

\* requests as http_wait_for_request sees them once the parser reached BODY:
\*   ver11  HTTP/1.1 or above,
\*   conn   tokens of the Connection header,
\*   te     Transfer-Encoding: none, chunked last, or chunked followed by
\*          another coding,
\*   cl     a valid Content-Length is present
Requests ==
    [meth : {"GET", "POST", "CONNECT"}, ver11 : BOOLEAN,
     conn : SUBSET {"close", "keep-alive"},
     te : {"none", "chunked", "bad"}, cl : BOOLEAN]

\* transfer length of a message: Transfer-Encoding then Content-Length
XferFlags(flags, te, cl) ==
    LET f1 == IF "HTTP_MSGF_VER_11" \in flags /\ te = "chunked"
              THEN flags \cup {"HTTP_MSGF_TE_CHNK", "HTTP_MSGF_XFER_LEN"}
              ELSE flags
        use_close_only == "HTTP_MSGF_VER_11" \in flags /\ te = "bad"
    IN  IF "HTTP_MSGF_TE_CHNK" \notin f1 /\ ~use_close_only /\ cl
        THEN f1 \cup {"HTTP_MSGF_CNT_LEN", "HTTP_MSGF_XFER_LEN"}
        ELSE f1

TX_HDR_CONN == {"TX_HDR_CONN_PRS", "TX_HDR_CONN_CLO", "TX_HDR_CONN_KAL",
                "TX_HDR_CONN_UPG"}

\* http_wait_for_request on a complete, valid request <rq>
http_wait_for_request(x, rq, an_bit) ==
    LET f0 == IF rq.ver11 THEN {"HTTP_MSGF_VER_11"} ELSE {}
        f1 == XferFlags(f0, rq.te, rq.cl)
        use_close_only == rq.ver11 /\ rq.te = "bad"
        f2 == IF ~use_close_only THEN f1 \cup {"HTTP_MSGF_XFER_LEN"} ELSE f1
    IN  [x EXCEPT !.txn.req = [msg_state |-> "BODY", flags |-> f2,
                               conn |-> rq.conn],
                  !.txn.meth = rq.meth,
                  !.txn.flags = @ \ TX_HDR_CONN,
                  !.req.analysers = @ \ {an_bit}]

\* http_parse_connection_header on message <dir> ("req" or "rsp"); to_del
\* holds 1 to remove "close" and 2 to remove "keep-alive"
http_parse_connection_header(x, dir, to_del) ==
    IF "TX_HDR_CONN_PRS" \in x.txn.flags THEN x
    ELSE
    LET conn == x.txn[dir].conn
        kal == IF "keep-alive" \in conn
               THEN {"TX_HDR_CONN_KAL"} \cup
                    (IF 2 \in to_del THEN {} ELSE {"TX_CON_KAL_SET"})
               ELSE {}
        clo == IF "close" \in conn
               THEN {"TX_HDR_CONN_CLO"} \cup
                    (IF 1 \in to_del THEN {} ELSE {"TX_CON_CLO_SET"})
               ELSE {}
        left == (conn \ (IF 2 \in to_del THEN {"keep-alive"} ELSE {}))
                     \ (IF 1 \in to_del THEN {"close"} ELSE {})
    IN  [x EXCEPT !.txn.flags = ((@ \ {"TX_CON_KAL_SET", "TX_CON_CLO_SET"})
                                   \cup kal \cup clo)
                                   \cup {"TX_HDR_CONN_PRS"},
                  !.txn[dir].conn = left]

\* the mode the options ask for, with SERVER_CLO wrongly tested last
ReqWantedModeSwapped(opts, opts2) ==
    LET t0 == "TUN"
        t1 == IF "PR_O_KEEPALIVE" \in opts \/ "PR_O2_FAKE_KA" \in opts2
              THEN "KAL" ELSE t0
        t2 == IF "PR_O_FORCE_CLO" \in opts THEN "CLO" ELSE t1
    IN  IF "PR_O_SERVER_CLO" \in opts THEN "SCL" ELSE t2

\* the mode the options ask for (tmp)
ReqWantedMode(opts, opts2) ==
    LET t0 == "TUN"
        t1 == IF "PR_O_KEEPALIVE" \in opts \/ "PR_O2_FAKE_KA" \in opts2
              THEN "KAL" ELSE t0
        t2 == IF "PR_O_SERVER_CLO" \in opts THEN "SCL" ELSE t1
    IN  IF "PR_O_FORCE_CLO" \in opts THEN "CLO" ELSE t2

\* the explicit close test without its HTTP/1.0 case
ReqExplicitCloseNoV10(x) ==
    /\ x.txn.con_want \in {"KAL", "SCL"}
    /\ \/ "TX_HDR_CONN_CLO" \in x.txn.flags
       \/ "PR_O_HTTP_CLOSE" \in x.fe.options \cup x.be.options
       \/ "HTTP_MSGF_XFER_LEN" \notin x.txn.req.flags
       \/ x.fe.state = "PR_STSTOPPED"

\* "check if client or config asks for explicit close in KAL/SCL"
ReqExplicitClose(x) ==
    /\ x.txn.con_want \in {"KAL", "SCL"}
    /\ \/ "TX_HDR_CONN_CLO" \in x.txn.flags
       \/ /\ "HTTP_MSGF_VER_11" \notin x.txn.req.flags
          /\ "TX_HDR_CONN_KAL" \notin x.txn.flags
       \/ "PR_O_HTTP_CLOSE" \in x.fe.options \cup x.be.options
       \/ "HTTP_MSGF_XFER_LEN" \notin x.txn.req.flags
       \/ x.fe.state = "PR_STSTOPPED"

\* the connection mode part of http_process_req_common
ReqConnMode(x) ==
    LET m     == x.txn.req
        opts  == x.fe.options \cup x.be.options
        opts2 == x.fe.options2 \cup x.be.options2
    IN
    IF \/ /\ "TX_HDR_CONN_PRS" \notin x.txn.flags
          /\ x.fe.options \cap ModeOpts # {}
       \/ x.fe.options \cap ModeOpts # x.be.options \cap ModeOpts
    THEN
      LET tmp == ReqWantedMode(opts, opts2)
          s1 == IF WantRank(x.txn.con_want) < WantRank(tmp)
                THEN [x EXCEPT !.txn.con_want = tmp] ELSE x
          to_del ==
              (IF \/ "HTTP_MSGF_VER_11" \in m.flags
                  \/ /\ WantRank(s1.txn.con_want) >= WantRank("SCL")
                     /\ "PR_O2_FAKE_KA" \notin opts2
               THEN {2} ELSE {})
              \cup (IF "HTTP_MSGF_VER_11" \notin m.flags THEN {1} ELSE {})
          s2 == IF "TX_HDR_CONN_PRS" \notin s1.txn.flags
                THEN http_parse_connection_header(s1, "req", to_del) ELSE s1
      IN  IF ReqExplicitClose(s2)
          THEN [s2 EXCEPT !.txn.con_want = "CLO"]
          ELSE s2
    ELSE x

\* http_process_req_common for a request that no rule blocks
http_process_req_common(x, an_bit) ==
    [ReqConnMode(x) EXCEPT !.req.analysers = @ \ {an_bit}]

\* http_process_request: the end of the request headers
http_process_request(x, an_bit) ==
    LET an == (x.req.analysers \cup
                  (IF "HTTP_MSGF_XFER_LEN" \in x.txn.req.flags
                   THEN {"AN_REQ_HTTP_XFER_BODY"} ELSE {})) \ {an_bit}
    IN  [x EXCEPT !.req.analysers = an,
                  !.srv.flags = IF "AN_REQ_HTTP_XFER_BODY" \notin an
                                THEN @ \cup {"SI_FL_NOHALF"} ELSE @]

(***************************************************************************)
(* Request and response state machines.                                    *)
(***************************************************************************)
\* channel_is_empty: nothing left to send
channel_is_empty(chn) == chn.o = 0

Before(st1, st2) == MsgRank(st1) < MsgRank(st2)

\* the request closed without waiting for its output
ReqClosingNoWait(x) == [x EXCEPT !.txn.req.msg_state = "CLOSED"]

\* http_msg_closing of the request
ReqClosing(x) ==
    IF channel_is_empty(x.req)
    THEN [x EXCEPT !.txn.req.msg_state = "CLOSED"]
    ELSE IF "CF_SHUTW" \in x.req.flags
    THEN [x EXCEPT !.txn.req.msg_state = "ERROR"]
    ELSE x

\* the DONE case with a request that never goes to TUNNEL
ReqDoneNoTunnel(x) ==
    LET x1 == IF "PR_O_ABRT_CLOSE" \notin x.be.options /\ x.txn.meth # "POST"
              THEN [x EXCEPT !.req.flags = @ \cup {"CF_DONT_READ"}] ELSE x
        x2 == [x1 EXCEPT !.srv.flags = @ \cup {"SI_FL_NOHALF"}]
        shut == x2.req.flags \cap {"CF_SHUTW", "CF_SHUTW_NOW"} # {}
        x3 == CASE x2.txn.con_want = "SCL" ->
                     IF ~shut
                     THEN [x2 EXCEPT !.req.flags = @ \cup {"CF_SHUTW_NOW"}]
                     ELSE x2
                [] x2.txn.con_want = "CLO" ->
                     IF ~shut
                     THEN [x2 EXCEPT !.req.flags =
                               @ \cup {"CF_SHUTR_NOW", "CF_SHUTW_NOW"}]
                     ELSE x2
                [] OTHER -> x2
    IN  IF x2.txn.rsp.msg_state = "ERROR" THEN x2
        ELSE IF Before(x2.txn.rsp.msg_state, "DONE") THEN x2
        ELSE IF x2.txn.rsp.msg_state = "TUNNEL" THEN x2
        ELSE IF x3.req.flags \cap {"CF_SHUTW", "CF_SHUTW_NOW"} # {}
        THEN LET x4 == [x3 EXCEPT !.srv.flags = @ \cup {"SI_FL_NOLINGER"}]
             IN  IF ~channel_is_empty(x4.req)
                 THEN ReqClosing([x4 EXCEPT !.txn.req.msg_state = "CLOSING"])
                 ELSE [x4 EXCEPT !.txn.req.msg_state = "CLOSED"]
        ELSE x3

\* the DONE case of http_sync_req_state
ReqDone(x) ==
    LET x1 == IF "PR_O_ABRT_CLOSE" \notin x.be.options /\ x.txn.meth # "POST"
              THEN [x EXCEPT !.req.flags = @ \cup {"CF_DONT_READ"}] ELSE x
        x2 == [x1 EXCEPT !.srv.flags = @ \cup {"SI_FL_NOHALF"}]
        shut == x2.req.flags \cap {"CF_SHUTW", "CF_SHUTW_NOW"} # {}
        x3 == CASE x2.txn.con_want = "SCL" ->
                     IF ~shut
                     THEN [x2 EXCEPT !.req.flags = @ \cup {"CF_SHUTW_NOW"}]
                     ELSE x2
                [] x2.txn.con_want = "CLO" ->
                     IF ~shut
                     THEN [x2 EXCEPT !.req.flags =
                               @ \cup {"CF_SHUTR_NOW", "CF_SHUTW_NOW"}]
                     ELSE x2
                [] OTHER ->
                     [x2 EXCEPT !.req.flags = (@ \ {"CF_DONT_READ"})
                                                 \cup {"CF_NEVER_WAIT"},
                                !.txn.req.msg_state = "TUNNEL"]
    IN  IF x2.txn.rsp.msg_state = "ERROR" THEN x2
        ELSE IF Before(x2.txn.rsp.msg_state, "DONE") THEN x2
        ELSE IF x2.txn.rsp.msg_state = "TUNNEL"
        THEN [x2 EXCEPT !.req.flags = (@ \ {"CF_DONT_READ"})
                                          \cup {"CF_NEVER_WAIT"},
                        !.txn.req.msg_state = "TUNNEL"]
        ELSE IF x3.req.flags \cap {"CF_SHUTW", "CF_SHUTW_NOW"} # {}
        THEN LET x4 == [x3 EXCEPT !.srv.flags = @ \cup {"SI_FL_NOLINGER"}]
             IN  IF ~channel_is_empty(x4.req)
                 THEN ReqClosing([x4 EXCEPT !.txn.req.msg_state = "CLOSING"])
                 ELSE [x4 EXCEPT !.txn.req.msg_state = "CLOSED"]
        ELSE x3

http_sync_req_state(x) ==
    IF Before(x.txn.req.msg_state, "BODY") THEN x
    ELSE IF x.txn.req.msg_state = "DONE" THEN ReqDone(x)
    ELSE IF x.txn.req.msg_state = "CLOSING" THEN ReqClosing(x)
    ELSE x

\* wait_other_side of the response: push the pending output out
ResWaitOtherSide(x) ==
    IF ~channel_is_empty(x.rep)
    THEN [x EXCEPT !.rep.flags = @ \cup {"CF_SEND_DONTWAIT"}]
    ELSE x

\* http_msg_closed of the response: bi_erase, auto_close, auto_read
ResClosed(x) ==
    [x EXCEPT !.rep.flags = (@ \cup {"CF_AUTO_CLOSE"}) \ {"CF_DONT_READ"}]

\* the response closed without waiting for its output
ResClosingNoWait(x) == ResClosed([x EXCEPT !.txn.rsp.msg_state = "CLOSED"])

\* http_msg_closing of the response
ResClosing(x) ==
    IF channel_is_empty(x.rep)
    THEN ResClosed([x EXCEPT !.txn.rsp.msg_state = "CLOSED"])
    ELSE IF "CF_SHUTW" \in x.rep.flags
    THEN [x EXCEPT !.txn.rsp.msg_state = "ERROR"]
    ELSE x

\* the DONE case of http_sync_res_state
ResDone(x) ==
    LET x3 == CASE x.txn.con_want = "SCL" ->
                     IF x.rep.flags \cap {"CF_SHUTR", "CF_SHUTR_NOW"} = {}
                     THEN [x EXCEPT !.rep.flags = @ \cup {"CF_SHUTR_NOW"}]
                     ELSE x
                [] x.txn.con_want = "CLO" ->
                     IF x.rep.flags \cap {"CF_SHUTW", "CF_SHUTW_NOW"} = {}
                     THEN [x EXCEPT !.rep.flags =
                               @ \cup {"CF_SHUTR_NOW", "CF_SHUTW_NOW"}]
                     ELSE x
                [] OTHER ->
                     [x EXCEPT !.rep.flags = (@ \ {"CF_DONT_READ"})
                                                \cup {"CF_NEVER_WAIT"},
                               !.txn.rsp.msg_state = "TUNNEL"]
    IN  IF x.txn.req.msg_state = "ERROR" THEN x
        ELSE IF Before(x.txn.req.msg_state, "DONE") THEN x
        ELSE IF x.txn.req.msg_state = "TUNNEL"
        THEN [x EXCEPT !.rep.flags = (@ \ {"CF_DONT_READ"})
                                         \cup {"CF_NEVER_WAIT"},
                       !.txn.rsp.msg_state = "TUNNEL"]
        ELSE IF x3.rep.flags \cap {"CF_SHUTW", "CF_SHUTW_NOW"} # {}
        THEN IF ~channel_is_empty(x3.rep)
             THEN ResClosing([x3 EXCEPT !.txn.rsp.msg_state = "CLOSING"])
             ELSE ResClosed([x3 EXCEPT !.txn.rsp.msg_state = "CLOSED"])
        ELSE x3

http_sync_res_state(x) ==
    IF Before(x.txn.rsp.msg_state, "BODY") THEN x
    ELSE IF x.txn.rsp.msg_state = "DONE" THEN ResWaitOtherSide(ResDone(x))
    ELSE IF x.txn.rsp.msg_state = "CLOSING"
    THEN ResWaitOtherSide(ResClosing(x))
    ELSE IF x.txn.rsp.msg_state = "CLOSED" THEN ResWaitOtherSide(ResClosed(x))
    ELSE ResWaitOtherSide(x)

\* what the sync functions return: a state or a flag of the channel changed
ReqChanged(x, y) ==
    x.txn.req.msg_state # y.txn.req.msg_state \/ x.req.flags # y.req.flags

ResChanged(x, y) ==
    x.txn.rsp.msg_state # y.txn.rsp.msg_state \/ x.rep.flags # y.rep.flags

\* the element of a singleton: The({e(v) : v \in {d}}) is e(d) with d
\* evaluated once
The(S) == CHOOSE z \in S : TRUE

\* the loop left out: nothing follows the first http_sync_req_state
ResyncLoopSkipped(x, n) == [x |-> x, n |-> n, ok |-> TRUE]

\* the loop of http_resync_states after its first http_sync_req_state;
\* n counts the calls made, ok tells that a call returned zero
RECURSIVE ResyncLoop(_, _)
ResyncLoop(x, n) ==
    IF n >= MaxSync THEN [x |-> x, n |-> n, ok |-> FALSE]
    ELSE The({
         IF ~ResChanged(x, r) THEN [x |-> r, n |-> n + 1, ok |-> TRUE]
         ELSE The({
              IF ~ReqChanged(r, q) THEN [x |-> q, n |-> n + 2, ok |-> TRUE]
              ELSE ResyncLoop(q, n + 2)
              : q \in {http_sync_req_state(r)}})
         : r \in {http_sync_res_state(x)}})

\* http_reset_txn with http_init_txn forgotten
ResetTxnNoInit(x) ==
    [x EXCEPT !.be = x.fe,
              !.req.flags = @ \cup {"CF_READ_DONTWAIT"}]

\* http_reset_txn
http_reset_txn(x) ==
    [x EXCEPT !.txn = InitTxn,
              !.be = x.fe,
              !.req.flags = @ \cup {"CF_READ_DONTWAIT"}]

\* http_end_txn_clean_session: si_shutr and si_shutw on the server side,
\* then everything is made ready for the next request
http_end_txn_clean_session(x) ==
    LET x1 == [x EXCEPT !.rep.flags = (@ \ {"CF_SHUTR_NOW"}) \cup {"CF_SHUTR"},
                        !.req.flags = (@ \ {"CF_SHUTW_NOW"}) \cup {"CF_SHUTW"},
                        !.srv = [state |-> "SI_ST_INI", flags |-> {}]]
        x2 == [x1 EXCEPT !.req.flags = @ \ {"CF_SHUTW", "CF_SHUTW_NOW",
                                             "CF_AUTO_CONNECT",
                                             "CF_WRITE_ERROR",
                                             "CF_NEVER_WAIT"},
                         !.rep.flags = @ \ {"CF_SHUTR", "CF_SHUTR_NOW",
                                             "CF_READ_ERROR",
                                             "CF_NEVER_WAIT"}]
        x3 == http_reset_txn(x2)
    IN  [x3 EXCEPT !.txn.flags = @ \cup {"TX_NOT_FIRST", "TX_WAIT_NEXT_RQ"},
                   !.req.flags = (@ \ {"CF_DONT_READ"}) \cup {"CF_AUTO_CLOSE"},
                   !.rep.flags = (@ \ {"CF_DONT_READ"}) \cup {"CF_AUTO_CLOSE"},
                   !.req.analysers = ListenerAnalysers,
                   !.rep.analysers = {}]

\* both directions are over, with the tunnel forgotten
BothOverNoTunnel(x) ==
    x.txn.req.msg_state = "CLOSED" /\ x.txn.rsp.msg_state = "CLOSED"

\* "HTTP_MSG_TUNNEL on either means we have to disable both analysers,
\* HTTP_MSG_CLOSED on both sides means we've reached the end"
BothOver(x) ==
    \/ x.txn.req.msg_state = "TUNNEL"
    \/ x.txn.rsp.msg_state = "TUNNEL"
    \/ x.txn.req.msg_state = "CLOSED" /\ x.txn.rsp.msg_state = "CLOSED"

\* the request must be aborted, with the errors forgotten
MustAbortNoError(x) ==
    /\ ~Before(x.txn.req.msg_state, "DONE")
    /\ x.txn.rsp.msg_state = "CLOSED" \/ "CF_SHUTW" \in x.rep.flags

\* "HTTP_MSG_CLOSED on the response only means we must abort the request"
MustAbort(x) ==
    \/ /\ ~Before(x.txn.req.msg_state, "DONE")
       /\ x.txn.rsp.msg_state = "CLOSED" \/ "CF_SHUTW" \in x.rep.flags
    \/ x.txn.rsp.msg_state = "ERROR"
    \/ x.txn.req.msg_state = "ERROR"

\* the clean-up of http_resync_states once both state machines agree
ResyncEnd(x) ==
    IF BothOver(x)
    THEN [x EXCEPT !.req.analysers = {},
                   !.req.flags = (@ \cup {"CF_AUTO_CLOSE"}) \ {"CF_DONT_READ"},
                   !.rep.analysers = {},
                   !.rep.flags = (@ \cup {"CF_AUTO_CLOSE"}) \ {"CF_DONT_READ"}]
    ELSE IF MustAbort(x)
    THEN [x EXCEPT !.rep.analysers = {},
                   !.rep.flags = (@ \cup {"CF_AUTO_CLOSE"}) \ {"CF_DONT_READ"},
                   !.req.analysers = {},
                   !.req.flags = ((@ \cup {"CF_SHUTR_NOW", "CF_SHUTW_NOW",
                                            "CF_AUTO_CLOSE"})
                                     \ {"CF_AUTO_CONNECT"}) \ {"CF_DONT_READ"}]
    ELSE IF /\ x.txn.req.msg_state = "CLOSED"
            /\ x.txn.rsp.msg_state = "DONE"
            /\ x.txn.con_want = "SCL"
    THEN http_end_txn_clean_session(x)
    ELSE x

\* http_resync_states; besides the session it leaves (x) the result tells
\* the session at the end of the loop (post), the calls the loop made (n)
\* and whether the loop ended on a call that returned zero (ok)
http_resync_states(x) ==
    The({[x |-> ResyncEnd(l.x), post |-> l.x, n |-> l.n, ok |-> l.ok]
         : l \in {ResyncLoop(y, 1) : y \in {http_sync_req_state(x)}}})

(***************************************************************************)
(* Body forwarding: the two analysers that call http_resync_states.        *)
(* Their result holds the session they leave (x) and what the resync they  *)
(* called did (r): its session on entry (pre), at the end of its loop      *)
(* (post) and on return (ret).                                             *)
(***************************************************************************)
NoSession == InitSession([options |-> {}, options2 |-> {},
                          state |-> "PR_STREADY"])

NoSync == [ran |-> FALSE, n |-> 0, ok |-> TRUE,
           pre |-> NoSession, post |-> NoSession, ret |-> NoSession]

Resynced(x) ==
    The({[ran |-> TRUE, n |-> r.n, ok |-> r.ok,
          pre |-> y, post |-> r.post, ret |-> r.x]
         : <<y, r>> \in {<<y, http_resync_states(y)>> : y \in {x}}})

\* what http_resync_states returns: a message state changed
StatesChanged(x, y) ==
    \/ x.txn.req.msg_state # y.txn.req.msg_state
    \/ x.txn.rsp.msg_state # y.txn.rsp.msg_state

ErrorFlags == {"CF_READ_ERROR", "CF_READ_TIMEOUT", "CF_WRITE_ERROR",
               "CF_WRITE_TIMEOUT"}

\* channel_forward, bo_inject: <len> more bytes of pending output
Forward(chn, len) ==
    [chn EXCEPT !.o = IF @ + len > MaxOut THEN MaxOut ELSE @ + len]

\* stream_int_retnclose on the client side; <len> is the length of the
\* message it sends to the client, zero without a message
stream_int_retnclose(x, len) ==
    [x EXCEPT !.req.flags = ((@ \ {"CF_DONT_READ", "CF_AUTO_CONNECT"})
                                \cup {"CF_SHUTR_NOW", "CF_SHUTW_NOW",
                                      "CF_AUTO_CLOSE"}),
              !.req.o = 0,
              !.rep = Forward([@ EXCEPT !.flags =
                                  (@ \ {"CF_DONT_READ"})
                                      \cup {"CF_AUTO_CLOSE", "CF_SHUTR_NOW"}],
                              len)]

\* the error message is sent whatever the status
ReqBodyAbortLoud(x, st) ==
    [stream_int_retnclose(x, 1)
        EXCEPT !.txn.status = st,
               !.txn.req.msg_state = "ERROR",
               !.req.analysers = {},
               !.rep.analysers = {}]

\* return_bad_req (st = 400), aborted_xfer (st = 502) of
\* http_request_forward_body
ReqBodyAbort(x, st) ==
    [stream_int_retnclose(x, IF x.txn.status # 0 THEN 0 ELSE 1)
        EXCEPT !.txn.status = IF @ # 0 THEN @ ELSE st,
               !.txn.req.msg_state = "ERROR",
               !.req.analysers = {},
               !.rep.analysers = {}]

\* missing_data of http_request_forward_body
ReqMissingData(x) ==
    IF "CF_SHUTR" \in x.req.flags THEN ReqBodyAbort(x, 400)
    ELSE IF "CF_SHUTW" \in x.req.flags THEN ReqBodyAbort(x, 502)
    ELSE IF "HTTP_MSGF_TE_CHNK" \in x.txn.req.flags
    THEN [x EXCEPT !.req.flags = @ \ {"CF_AUTO_CLOSE"}]
    ELSE x

\* "other states, DONE...TUNNEL" of http_request_forward_body
ReqBodyResync(x) ==
    The({
      LET y == r.ret
      IN  IF StatesChanged(r.pre, y)
          THEN IF y.txn.req.msg_state = "ERROR"
               THEN [x |-> ReqBodyAbort(y, IF "CF_SHUTW" \in y.req.flags
                                           THEN 502 ELSE 400),
                     r |-> r]
               ELSE [x |-> y, r |-> r]
          ELSE IF "PR_O_ABRT_CLOSE" \in y.be.options
          THEN [x |-> [y EXCEPT !.req.flags =
                           (@ \ {"CF_DONT_READ"}) \cup {"CF_AUTO_CLOSE"}],
                r |-> r]
          ELSE IF y.txn.meth = "POST"
          THEN [x |-> [y EXCEPT !.req.flags = @ \ {"CF_DONT_READ"}], r |-> r]
          ELSE [x |-> y, r |-> r]
      : r \in {Resynced(IF x.txn.con_want \in {"KAL", "SCL"}
                        THEN [x EXCEPT !.req.flags = @ \ {"CF_AUTO_CLOSE"}]
                        ELSE x)}})

\* http_request_forward_body; <more> tells that the body is not complete
\* yet, <fwd> the amount of data the call schedules for forwarding
http_request_forward_body(x, more, fwd) ==
    IF Before(x.txn.req.msg_state, "BODY") THEN [x |-> x, r |-> NoSync]
    ELSE IF \/ x.req.flags \cap ErrorFlags # {}
            \/ "CF_SHUTW" \in x.req.flags /\ x.req.o > 0
    THEN The({[x |-> r.ret, r |-> r]
              : r \in {Resynced([x EXCEPT !.txn.req.msg_state = "ERROR"])}})
    ELSE
    LET x1 == [x EXCEPT !.req.flags = @ \cup {"CF_AUTO_CLOSE"}]
        x2 == IF x1.txn.req.msg_state = "BODY"
              THEN [x1 EXCEPT !.txn.req.msg_state = "DATA"] ELSE x1
    IN  IF x2.txn.req.msg_state = "DATA"
        THEN LET x3 == [x2 EXCEPT !.req = Forward(@, fwd)]
             IN  IF more THEN [x |-> ReqMissingData(x3), r |-> NoSync]
                 ELSE ReqBodyResync([x3 EXCEPT !.txn.req.msg_state = "DONE"])
        ELSE ReqBodyResync(x2)

\* responses as http_wait_for_response sees them once the parser reached
\* BODY; NoResponse stands for a response that is not complete yet
Responses ==
    [status : {100, 101, 102, 200, 204}, ver11 : BOOLEAN,
     conn : SUBSET {"close", "keep-alive"},
     te : {"none", "chunked", "bad"}, cl : BOOLEAN]

NoResponse == [status |-> 0, ver11 |-> FALSE, conn |-> {}, te |-> "none",
               cl |-> FALSE]

\* the aborts of http_wait_for_response that answer the client with <st>
ResAbort(x, st) ==
    LET x1 == [x EXCEPT !.rep.flags = @ \cup {"CF_AUTO_CLOSE"},
                        !.rep.analysers = {},
                        !.txn.status = st,
                        !.srv.flags = IF st \in {502, 504}
                                      THEN @ \cup {"SI_FL_NOLINGER"} ELSE @]
    IN  stream_int_retnclose(x1, 1)

\* the write error is not looked at
ResWriteErrorKept(x) == [x EXCEPT !.rep.flags = @ \ {"CF_AUTO_CLOSE"}]

\* "write error to client (we don't send any message then)" of
\* http_wait_for_response
ResWriteError(x) ==
    [x EXCEPT !.rep.analysers = {},
              !.rep.flags = @ \cup {"CF_AUTO_CLOSE"}]

\* http_wait_for_response
http_wait_for_response(x, rp, an_bit) ==
    IF rp = NoResponse
    THEN IF "CF_READ_ERROR" \in x.rep.flags THEN ResAbort(x, 502)
         ELSE IF "CF_READ_TIMEOUT" \in x.rep.flags THEN ResAbort(x, 504)
         ELSE IF "CF_SHUTR" \in x.rep.flags
         THEN IF {"CF_SHUTR", "CF_SHUTW"} \subseteq x.req.flags
              THEN ResAbort(x, 400)
              ELSE ResAbort(x, 502)
         ELSE IF "CF_WRITE_ERROR" \in x.rep.flags THEN ResWriteError(x)
         ELSE [x EXCEPT !.rep.flags = @ \ {"CF_AUTO_CLOSE"}]
    ELSE
    LET f0 == (x.txn.rsp.flags
                  \cup (IF rp.ver11 THEN {"HTTP_MSGF_VER_11"} ELSE {}))
                  \ {"HTTP_MSGF_XFER_LEN"}
        f1 == IF (rp.status >= 100 /\ rp.status < 200) \/ rp.status = 204
              THEN f0 \cup {"HTTP_MSGF_XFER_LEN"}
              ELSE XferFlags(f0, rp.te, rp.cl)
    IN  [x EXCEPT !.txn.rsp = [msg_state |-> "BODY", flags |-> f1,
                               conn |-> rp.conn],
                  !.txn.flags = @ \ (TX_HDR_CONN \cup {"TX_CON_CLO_SET",
                                                       "TX_CON_KAL_SET"}),
                  !.txn.status = rp.status,
                  !.rep.analysers = @ \ {an_bit},
                  !.rep.flags = @ \cup {"CF_AUTO_CLOSE"}]

\* "some keep-alive responses are converted to Server-close if the server
\* wants to close"
ResServerClose(x) ==
    \/ "TX_HDR_CONN_CLO" \in x.txn.flags
    \/ /\ "TX_HDR_CONN_KAL" \notin x.txn.flags
       /\ "HTTP_MSGF_VER_11" \notin x.txn.rsp.flags

\* the connection mode part of http_process_res_common
ResConnMode(x) ==
    IF (x.txn.meth = "CONNECT" /\ x.txn.status = 200) \/ x.txn.status = 101
    THEN [x EXCEPT !.txn.con_want = "TUN"]
    ELSE IF /\ x.txn.status >= 200
            /\ "TX_HDR_CONN_PRS" \notin x.txn.flags
            /\ \/ x.txn.con_want # "TUN"
               \/ "PR_O_HTTP_CLOSE" \in x.fe.options \cup x.be.options
    THEN
      LET x1 == IF /\ "HTTP_MSGF_XFER_LEN" \notin x.txn.rsp.flags
                   /\ x.txn.con_want # "TUN"
                THEN [x EXCEPT !.txn.con_want = "CLO"] ELSE x
          to_del ==
              IF x1.txn.con_want \in {"TUN", "CLO"}
              THEN {2} \cup (IF "HTTP_MSGF_VER_11" \notin x1.txn.rsp.flags
                             THEN {1} ELSE {})
              ELSE {1} \cup (IF "HTTP_MSGF_VER_11" \in
                                   x1.txn.req.flags \cap x1.txn.rsp.flags
                             THEN {2} ELSE {})
          x2 == http_parse_connection_header(x1, "rsp", to_del)
      IN  IF x2.txn.con_want = "KAL" /\ ResServerClose(x2)
          THEN [x2 EXCEPT !.txn.con_want = "SCL"]
          ELSE x2
    ELSE x

\* http_process_res_common for a response that no rule blocks
http_process_res_common(x, an_bit) ==
    IF Before(x.txn.rsp.msg_state, "BODY") THEN x
    ELSE
    LET x1 == ResConnMode([x EXCEPT !.rep.analysers = @ \ {an_bit}])
    IN  IF x1.txn.status = 100
        THEN [x1 EXCEPT !.rep = Forward([@ EXCEPT !.analysers =
                                   @ \cup {"AN_RES_WAIT_HTTP", an_bit}], 1),
                        !.txn.rsp.msg_state = "RPBEFORE",
                        !.txn.status = 0]
        ELSE IF \/ "HTTP_MSGF_XFER_LEN" \in x1.txn.rsp.flags
                \/ x1.txn.con_want = "TUN"
        THEN [x1 EXCEPT !.rep.analysers = @ \cup {"AN_RES_HTTP_XFER_BODY"}]
        ELSE x1

\* return_bad_res, aborted_xfer of http_response_forward_body
ResBodyAbort(x) ==
    [stream_int_retnclose(x, 0) EXCEPT !.txn.rsp.msg_state = "ERROR",
                                       !.rep.analysers = {},
                                       !.req.analysers = {}]

\* missing_data of http_response_forward_body
ResMissingData(x) ==
    IF "CF_SHUTW" \in x.rep.flags THEN ResBodyAbort(x)
    ELSE IF "CF_SHUTR" \in x.rep.flags THEN ResBodyAbort(x)
    ELSE IF x.req.analysers = {} THEN ResBodyAbort(x)
    ELSE IF \/ "HTTP_MSGF_TE_CHNK" \in x.txn.rsp.flags
            \/ x.txn.con_want \in {"KAL", "SCL"}
    THEN [x EXCEPT !.rep.flags = @ \ {"CF_AUTO_CLOSE"}]
    ELSE x

\* "other states, DONE...TUNNEL" of http_response_forward_body
ResBodyResync(x) ==
    The({
      IF StatesChanged(r.pre, r.ret) /\ r.ret.txn.rsp.msg_state = "ERROR"
      THEN [x |-> ResBodyAbort(r.ret), r |-> r]
      ELSE [x |-> r.ret, r |-> r]
      : r \in {Resynced(IF x.txn.con_want \in {"KAL", "SCL"}
                        THEN [x EXCEPT !.rep.flags = @ \ {"CF_AUTO_CLOSE"}]
                        ELSE x)}})

\* http_response_forward_body; <more> tells that the body is not complete
\* yet, <fwd> the amount of data the call schedules for forwarding
http_response_forward_body(x, more, fwd) ==
    IF Before(x.txn.rsp.msg_state, "BODY") THEN [x |-> x, r |-> NoSync]
    ELSE IF \/ x.rep.flags \cap ErrorFlags # {}
            \/ "CF_SHUTW" \in x.rep.flags /\ x.rep.o > 0
            \/ x.req.analysers = {}
    THEN The({[x |-> r.ret, r |-> r]
              : r \in {Resynced([x EXCEPT !.txn.rsp.msg_state = "ERROR"])}})
    ELSE
    LET x1 == [x EXCEPT !.rep.flags = @ \cup {"CF_AUTO_CLOSE"}]
        x2 == IF x1.txn.rsp.msg_state = "BODY"
              THEN [x1 EXCEPT !.txn.rsp.msg_state = "DATA"] ELSE x1
    IN  IF x2.txn.rsp.msg_state = "DATA"
        THEN LET x3 == [x2 EXCEPT !.rep = Forward(@, fwd)]
             IN  IF more THEN [x |-> ResMissingData(x3), r |-> NoSync]
                 ELSE ResBodyResync([x3 EXCEPT !.txn.rsp.msg_state = "DONE"])
        ELSE ResBodyResync(x2)

(***************************************************************************)
(* Header block editing.  Offsets are counted from buf->p; a buffer holds  *)
(* at most BufSize bytes.                                                  *)
(***************************************************************************)
\* the byte at offset <k> of <b>; "?" stands for what lies outside of the
\* received bytes
At(b, k) == IF k >= 0 /\ k < Len(b) THEN b[k + 1] ELSE "?"

\* buffer_replace2: the bytes [pos, end) become <str>; returns the
\* displacement, which is zero when the result would not fit
buffer_replace2(b, pos, end, str) ==
    IF Len(b) + Len(str) - (end - pos) > BufSize \/ pos < 0 \/ end > Len(b)
    THEN [buf |-> b, delta |-> 0]
    ELSE [buf |-> SubSeq(b, 1, pos) \o str \o SubSeq(b, end + 1, Len(b)),
          delta |-> Len(str) - (end - pos)]

\* buffer_insert_line2: <str> and a CRLF are inserted at <pos>; returns the
\* number of bytes inserted, zero without room
buffer_insert_line2(b, pos, str) ==
    IF Len(b) + Len(str) + 2 > BufSize
    THEN [buf |-> b, delta |-> 0]
    ELSE [buf |-> SubSeq(b, 1, pos) \o str \o <<"CR", "LF">>
                      \o SubSeq(b, pos + 1, Len(b)),
          delta |-> Len(str) + 2]

\* http_msg_move_end
http_msg_move_end(m, bytes) ==
    [m EXCEPT !.eoh = @ + bytes, !.sov = @ + bytes, !.next = @ + bytes]

hdr_idx_first_pos(idx) == idx.v[0].len + idx.v[0].cr + 1

hdr_idx_first_idx(idx) == idx.v[0].next

\* http_header_add_tail2; returns [m, idx, buf, ret, delta]
http_header_add_tail2(m, idx, b, text) ==
    LET r == buffer_insert_line2(b, m.eoh, text)
        a == hdr_idx_add(Len(text), 1, idx, idx.tail)
    IN  IF r.delta = 0
        THEN [m |-> m, idx |-> idx, buf |-> b, ret |-> -1, delta |-> 0]
        ELSE [m |-> http_msg_move_end(m, r.delta), idx |-> a.idx,
              buf |-> r.buf, ret |-> IF a.ok THEN a.idx.tail ELSE -1,
              delta |-> r.delta]

\* struct hdr_ctx
NoCtx == [idx |-> 0, prev |-> 0, line |-> 0, del |-> 0, val |-> 0,
          vlen |-> 0, tws |-> 0]

RECURSIVE find_hdr_value_end(_, _, _)
find_hdr_value_end(b, p, e) ==
    IF p < e /\ At(b, p) # "," THEN find_hdr_value_end(b, p + 1, e) ELSE p

\* while (sov < eol && http_is_lws[*sov]) sov++
RECURSIVE SkipLws(_, _, _)
SkipLws(b, p, e) ==
    IF p < e /\ HTTP_IS_LWS(At(b, p)) THEN SkipLws(b, p + 1, e) ELSE p

\* while (eol > sov && http_is_lws[*(eol - 1)]) eol--
RECURSIVE TrimLws(_, _, _)
TrimLws(b, sov, e) ==
    IF e > sov /\ HTTP_IS_LWS(At(b, e - 1)) THEN TrimLws(b, sov, e - 1) ELSE e

\* return_hdr of http_find_header2
ReturnHdr(b, c, cur_idx, sol, sov, eol) ==
    LET ve == find_hdr_value_end(b, sov, eol)
        e2 == TrimLws(b, sov, ve)
    IN  [found |-> TRUE,
         ctx |-> [c EXCEPT !.idx = cur_idx, !.val = sov - sol,
                           !.tws = ve - e2, !.vlen = e2 - sov]]

\* the loop of http_find_header2 over the headers, next_hdr included
RECURSIVE FindLoop(_, _, _, _, _, _, _)
FindLoop(name, b, idx, c, cur_idx, old_idx, sol) ==
    IF cur_idx = 0 THEN [found |-> FALSE, ctx |-> c]
    ELSE LET eol == sol + idx.v[cur_idx].len
             len == Len(name)
         IN  IF /\ len < eol - sol
                /\ At(b, sol + len) = ":"
                /\ \A k \in 1..len : At(b, sol + k - 1) = name[k]
             THEN ReturnHdr(b, [c EXCEPT !.del = len, !.line = sol,
                                         !.prev = old_idx],
                            cur_idx, sol, SkipLws(b, sol + len + 1, eol), eol)
             ELSE FindLoop(name, b, idx, c, idx.v[cur_idx].next, cur_idx,
                           eol + idx.v[cur_idx].cr + 1)

\* http_find_header2: the first (c.idx = 0) or the next value of header
\* <name>; returns [found, ctx]
http_find_header2(name, b, idx, c) ==
    IF c.idx # 0
    THEN LET sol == c.line
             c1  == [c EXCEPT !.del = c.val + c.vlen + c.tws]
             sov == sol + c1.del
             eol == sol + idx.v[c.idx].len
         IN  IF sov >= eol
             THEN FindLoop(name, b, idx, c1, idx.v[c.idx].next, c.idx,
                           eol + idx.v[c.idx].cr + 1)
             ELSE ReturnHdr(b, c1, c.idx, sol, SkipLws(b, sov + 1, eol), eol)
    ELSE FindLoop(name, b, idx, c, hdr_idx_first_idx(idx), 0,
                  hdr_idx_first_pos(idx))

\* http_remove_header2, "this was the only value of the header"
RemoveWhole(m, idx, c, b) ==
    LET cur == c.idx
        hdr == idx.v[cur]
        r   == buffer_replace2(b, c.line, c.line + hdr.len + hdr.cr + 1, <<>>)
        i1  == [idx EXCEPT !.used = @ - 1, !.v[cur].len = 0,
                           !.v[c.prev].next = idx.v[cur].next,
                           !.tail = IF @ = cur THEN c.prev ELSE @]
    IN  [m |-> http_msg_move_end(m, r.delta), idx |-> i1, buf |-> r.buf,
         delta |-> r.delta, entry |-> 0,
         ctx |-> [c EXCEPT !.idx = c.prev,
                           !.line = c.line - (i1.v[c.prev].len + hdr.cr + 1),
                           !.val = i1.v[c.prev].len, !.tws = 0, !.vlen = 0]]

\* http_remove_header2 that forgets to shorten the index entry
RemoveValueKeepLen(m, idx, c, b) ==
    LET hdr == idx.v[c.idx]
        skip_comma == IF c.val + c.vlen + c.tws = hdr.len THEN 0 ELSE 1
        r == buffer_replace2(b, c.line + c.del + skip_comma,
                             c.line + c.val + c.vlen + c.tws + skip_comma,
                             <<>>)
    IN  [m |-> http_msg_move_end(m, r.delta), idx |-> idx,
         buf |-> r.buf, delta |-> r.delta, entry |-> c.idx,
         ctx |-> [c EXCEPT !.val = c.del, !.tws = 0, !.vlen = 0]]

\* http_remove_header2, "this was not the only value of this header"
RemoveValue(m, idx, c, b) ==
    LET hdr == idx.v[c.idx]
        skip_comma == IF c.val + c.vlen + c.tws = hdr.len THEN 0 ELSE 1
        r == buffer_replace2(b, c.line + c.del + skip_comma,
                             c.line + c.val + c.vlen + c.tws + skip_comma,
                             <<>>)
    IN  [m |-> http_msg_move_end(m, r.delta),
         idx |-> [idx EXCEPT !.v[c.idx].len = @ + r.delta],
         buf |-> r.buf, delta |-> r.delta, entry |-> c.idx,
         ctx |-> [c EXCEPT !.val = c.del, !.tws = 0, !.vlen = 0]]

\* http_remove_header2; returns [m, idx, buf, ctx, delta, entry], <entry>
\* being the index entry it edited in place, if any
http_remove_header2(m, idx, c, b) ==
    IF c.idx = 0
    THEN [m |-> m, idx |-> idx, buf |-> b, ctx |-> c, delta |-> 0,
          entry |-> 0]
    ELSE IF /\ At(b, c.line + c.del) = ":"
            /\ c.val + c.vlen + c.tws = idx.v[c.idx].len
    THEN RemoveWhole(m, idx, c, b)
    ELSE RemoveValue(m, idx, c, b)

\* the loop of apply_filter_to_req_headers for a filter whose expression
\* matches the headers of rank <matches>; <n> is the rank of the current
\* header, <act> is ACT_REPLACE (by <text>) or ACT_REMOVE
RECURSIVE FilterLoop(_, _, _, _, _, _, _, _, _, _)
FilterLoop(m, idx, b, old_idx, cur_next, n, matches, act, text, delta) ==
    LET cur_idx == idx.v[old_idx].next
        cur_hdr == idx.v[cur_idx]
        cur_ptr == cur_next
        cur_end == cur_ptr + cur_hdr.len
        nxt     == cur_end + cur_hdr.cr + 1
    IN  IF cur_idx = 0 \/ n > HdrIdxSize
        THEN [m |-> m, idx |-> idx, buf |-> b, delta |-> delta]
        ELSE IF n \notin matches
        THEN FilterLoop(m, idx, b, cur_idx, nxt, n + 1, matches, act, text,
                        delta)
        ELSE IF act = "ACT_REPLACE"
        THEN LET r == buffer_replace2(b, cur_ptr, cur_end, text)
             IN  FilterLoop(http_msg_move_end(m, r.delta),
                            [idx EXCEPT !.v[cur_idx].len = @ + r.delta],
                            r.buf, cur_idx, nxt + r.delta, n + 1, matches,
                            act, text, delta + r.delta)
        ELSE LET r == buffer_replace2(b, cur_ptr, nxt, <<>>)
             IN  FilterLoop(http_msg_move_end(m, r.delta),
                            [idx EXCEPT !.v[old_idx].next = cur_hdr.next,
                                        !.used = @ - 1,
                                        !.v[cur_idx].len = 0],
                            r.buf, old_idx, nxt + r.delta, n + 1, matches,
                            act, text, delta + r.delta)

\* apply_filter_to_req_headers; returns [m, idx, buf, delta]
apply_filter_to_req_headers(m, idx, b, act, text, matches) ==
    FilterLoop(m, idx, b, 0, hdr_idx_first_pos(idx), 1, matches, act, text, 0)

\* manage_client_side_cookies for Cookie headers (those of rank <matches>)
\* none of whose cookies is preserved: the whole header is deleted
manage_client_side_cookies(m, idx, b, matches) ==
    FilterLoop(m, idx, b, 0, hdr_idx_first_pos(idx), 1, matches,
               "ACT_REMOVE", <<>>, 0)

(***************************************************************************)
(* Chunked transfer coding.  The unsigned int <chunk> of the parser is a   *)
(* pair of 16-bit halves; the 64-bit chunk_len, body_len and to_forward    *)
(* are pairs whose high part is not bounded by the model.  The buffer does *)
(* not wrap: <b> holds the input from buf->p.                              *)
(***************************************************************************)
Half == 2 ^ 16

Wide(n) == [hi |-> n \div Half, lo |-> n % Half]

WideAdd(u, v) ==
    [hi |-> u.hi + v.hi + (u.lo + v.lo) \div Half,
     lo |-> (u.lo + v.lo) % Half]

\* u - v, for v <= u
WideSub(u, v) ==
    IF u.lo >= v.lo THEN [hi |-> u.hi - v.hi, lo |-> u.lo - v.lo]
    ELSE [hi |-> u.hi - v.hi - 1, lo |-> u.lo + Half - v.lo]

WideLe(u, v) == u.hi < v.hi \/ (u.hi = v.hi /\ u.lo <= v.lo)

\* 2^31
TwoGB == [hi |-> 32768, lo |-> 0]

\* hextab
hextab == <<"0", "1", "2", "3", "4", "5", "6", "7", "8", "9",
            "A", "B", "C", "D", "E", "F">>

LowerHex == <<"a", "b", "c", "d", "e", "f">>

\* hex2i: the value of a hexadecimal digit of either case, -1 for any other
\* byte
hex2i(ch) ==
    IF \E k \in 1..16 : hextab[k] = ch
    THEN (CHOOSE k \in 1..16 : hextab[k] = ch) - 1
    ELSE IF \E k \in 1..6 : LowerHex[k] = ch
    THEN (CHOOSE k \in 1..6 : LowerHex[k] = ch) + 9
    ELSE -1

\* chunk & 0xF8000000 is not taken into account
NoOverflow(chunk) == FALSE

\* chunk & 0xF8000000: integer overflow will occur if result >= 2GB
Overflow(chunk) == chunk.hi \div 2048 # 0

\* chunk = (chunk << 4) + c on an unsigned int
ShiftAdd(chunk, c) ==
    [hi |-> (chunk.hi * 16 + (chunk.lo * 16 + c) \div Half) % Half,
     lo |-> (chunk.lo * 16 + c) % Half]

\* http_parse_chunk_size, the loop over the digits; returns what the
\* function returns at this point (2: it goes on), ptr and chunk
RECURSIVE ChunkDigits(_, _, _)
ChunkDigits(b, ptr, chunk) ==
    IF ptr = Len(b) THEN [ret |-> 0, ptr |-> ptr, chunk |-> chunk]
    ELSE IF hex2i(At(b, ptr)) < 0
    THEN [ret |-> 2, ptr |-> ptr, chunk |-> chunk]
    ELSE IF Overflow(chunk)
    THEN [ret |-> -1, ptr |-> ptr + 1, chunk |-> chunk]
    ELSE ChunkDigits(b, ptr + 1, ShiftAdd(chunk, hex2i(At(b, ptr))))

\* while (http_is_spht[*ptr]); returns the ptr it stops at, Len(b) when it
\* meets the end of the input
RECURSIVE ChunkSpht(_, _)
ChunkSpht(b, ptr) ==
    IF ptr < Len(b) /\ HTTP_IS_SPHT(At(b, ptr))
    THEN ChunkSpht(b, ptr + 1) ELSE ptr

\* while (!HTTP_IS_CRLF(*ptr)) of a chunk extension
RECURSIVE ChunkExt(_, _)
ChunkExt(b, ptr) ==
    IF ptr < Len(b) /\ ~HTTP_IS_CRLF(At(b, ptr))
    THEN ChunkExt(b, ptr + 1) ELSE ptr

\* http_parse_chunk_size, the loop that looks for the end of the chunk
\* size; <ptr> is a byte of the input
RECURSIVE ChunkEol(_, _)
ChunkEol(b, ptr) ==
    IF HTTP_IS_CRLF(At(b, ptr))
    THEN LET q == IF At(b, ptr) = "CR" THEN ptr + 1 ELSE ptr
         IN  IF q = Len(b) THEN [ret |-> 0, ptr |-> q]
             ELSE IF At(b, q) # "LF" THEN [ret |-> -1, ptr |-> q]
             ELSE [ret |-> 1, ptr |-> q + 1]
    ELSE IF At(b, ptr) = ";"
    THEN IF ptr + 1 = Len(b) THEN [ret |-> 0, ptr |-> ptr + 1]
         ELSE LET q == ChunkExt(b, ptr + 1)
              IN  IF q = Len(b) THEN [ret |-> 0, ptr |-> q]
                  ELSE ChunkEol(b, q)
    ELSE [ret |-> -1, ptr |-> ptr]

\* http_parse_chunk_size; returns [ret, m, chunk]
http_parse_chunk_size(m, b) ==
    LET d == ChunkDigits(b, m.next, Wide(0))
        q == ChunkSpht(b, d.ptr)
        e == ChunkEol(b, q)
        err(ptr) == [ret |-> -1, m |-> [m EXCEPT !.err_pos = ptr],
                     chunk |-> d.chunk]
        missing == [ret |-> 0, m |-> m, chunk |-> d.chunk]
    IN  IF d.ret = 0 THEN missing
        ELSE IF d.ret = -1 THEN err(d.ptr)
        ELSE IF d.ptr = m.next THEN err(d.ptr)
        ELSE IF q = Len(b) THEN missing
        ELSE IF e.ret = 0 THEN missing
        ELSE IF e.ret = -1 THEN err(e.ptr)
        ELSE [ret |-> 1,
              m |-> [m EXCEPT !.sov = @ + e.ptr - m.next,
                              !.next = e.ptr,
                              !.chunk_len = d.chunk,
                              !.body_len = WideAdd(@, d.chunk),
                              !.msg_state = IF d.chunk = Wide(0)
                                            THEN "TRAILERS" ELSE "DATA"],
              chunk |-> d.chunk]

\* any byte ends the chunk
CrlfAny(b, ptr) == TRUE

\* *ptr != '\n' of http_skip_chunk_crlf, negated
CrlfEnd(b, ptr) == At(b, ptr) = "LF"

\* http_skip_chunk_crlf; returns [ret, m].  The byte at buf->p is read
\* before the amount of input is looked at: without input it is whatever
\* the storage holds there, and the function returns 0 whatever that is.
http_skip_chunk_crlf(m, b) ==
    LET cr    == At(b, 0) = "CR"
        bytes == IF cr THEN 2 ELSE 1
        ptr   == IF cr THEN 1 ELSE 0
    IN  IF bytes > Len(b) THEN [ret |-> 0, m |-> m]
        ELSE IF ~CrlfEnd(b, ptr)
        THEN [ret |-> -1, m |-> [m EXCEPT !.err_pos = ptr]]
        ELSE [ret |-> 1, m |-> [m EXCEPT !.sol = 0, !.sov = bytes,
                                         !.next = bytes,
                                         !.msg_state = "CHUNK_SIZE"]]

\* http_forward_trailers, the scan of one line from <ptr>; <p1> is -1 for
\* NULL.  Returns [ret, p1, p2] with ret = 2 when the line ends at p2.
RECURSIVE TrailerLine(_, _, _)
TrailerLine(b, ptr, p1) ==
    IF ptr = Len(b) THEN [ret |-> 0, p1 |-> p1, p2 |-> ptr]
    ELSE IF At(b, ptr) = "LF"
    THEN [ret |-> 2, p1 |-> IF p1 = -1 THEN ptr ELSE p1, p2 |-> ptr]
    ELSE IF At(b, ptr) = "CR"
    THEN IF p1 # -1 THEN [ret |-> -1, p1 |-> p1, p2 |-> ptr]
         ELSE TrailerLine(b, ptr + 1, ptr)
    ELSE TrailerLine(b, ptr + 1, p1)

\* http_forward_trailers; returns [ret, m]
RECURSIVE http_forward_trailers(_, _)
http_forward_trailers(m, b) ==
    LET l  == TrailerLine(b, m.next, -1)
        p2 == l.p2 + 1
        m1 == [m EXCEPT !.sov = @ + p2 - m.next, !.next = p2]
    IN  IF l.ret = 0 THEN [ret |-> 0, m |-> m]
        ELSE IF l.ret = -1
        THEN [ret |-> -1, m |-> [m EXCEPT !.err_pos = l.p2]]
        ELSE IF l.p1 = m.next
        THEN [ret |-> 1, m |-> [m1 EXCEPT !.msg_state = "DONE"]]
        ELSE http_forward_trailers(m1, b)

\* http_emit_chunk_size: six digits of <chksz>, then add_crlf + 1 CRLF
RECURSIVE EmitCrlf(_)
EmitCrlf(add_crlf) ==
    <<"CR", "LF">> \o (IF add_crlf - 1 >= 0 THEN EmitCrlf(add_crlf - 1)
                       ELSE <<>>)

\* (chksz >> shift) & 0xF of an unsigned int
Nibble(chksz, shift) ==
    IF shift >= 16 THEN (chksz.hi \div (2 ^ (shift - 16))) % 16
    ELSE (chksz.lo \div (2 ^ shift)) % 16

\* five digits are written instead of six
EmitFiveDigits(chksz, add_crlf) ==
    [k \in 1..5 |-> hextab[Nibble(chksz, 20 - 4 * k) + 1]]
        \o EmitCrlf(add_crlf)

http_emit_chunk_size(chksz, add_crlf) ==
    [k \in 1..6 |-> hextab[Nibble(chksz, 24 - 4 * k) + 1]]
        \o EmitCrlf(add_crlf)

(***************************************************************************)
(* State.                                                                  *)
(*  Parser:  msg, idx  the message being parsed and its header index,      *)
(*           buf       the input bytes of the channel's buffer, from p,    *)
(*           buf_p     the offset of buf->p in the buffer's storage, in    *)
(*                     the specification that follows it (SpecMargin),     *)
(*           o         the amount of pending output in that buffer,        *)
(*           stream    every byte received so far (history),               *)
(*           first     the message as http_init_txn left it (history),     *)
(*           ctx       the struct hdr_ctx of the caller that walks the     *)
(*                     headers of the parsed message.                      *)
(*  Session: s        the session: proxies, transaction, both channels,   *)
(*           backend  the proxy the switching rules select,                *)
(*           hist     the request and the response the session was given,  *)
(*                    and what its last step did when that step was        *)
(*                    http_process_res_common (res), called                *)
(*                    http_resync_states (sync), called the parser (scan)  *)
(*                    or edited the header block (edit) (history).         *)
(***************************************************************************)
VARIABLES msg, idx, buf, buf_p, o, stream, first, ctx, s, backend, hist

pvars == <<msg, idx, buf, buf_p, o, stream, first, ctx>>

svars == <<s, backend, hist>>

\* msg_state < HTTP_MSG_ERROR: the message is still in its headers
InHeaders(st) == st \notin {"ERROR", "BODY"}

\* the analysers' call of the parser (http_wait_for_request,
\* http_wait_for_response): only on a non-empty buffer, a message still in
\* its headers, and unparsed bytes
ParseMore(m, i, b, out) ==
    IF Len(b) > 0 /\ InHeaders(m.msg_state) /\ m.next < Len(b)
    THEN http_msg_analyzer(m, i, b, out)
    ELSE [m |-> m, idx |-> i, buf |-> b, lo |-> m.next, del |-> 0]

vars == <<msg, idx, buf, buf_p, o, stream, first, ctx, s, backend, hist>>

Pieces == UNION {[1..n -> Bytes] : n \in 1..MaxPiece}

\* longer streams: complete messages, fed in every possible split
Samples ==
    { <<"G", "SP", "/", "SP", "H", "CR", "LF",
        "G", ":", "SP", "G", "CR", "LF", "CR", "LF">>,
      <<"G", "SP", "/", "SP", "H", "LF", "G", ":", "G", "LF",
        "G", ":", "G", "LF", "G", ":", "G", "LF", "LF">>,
      <<"G", "SP", "/", "SP", "H", "LF", "G", ":", "G", "LF",
        "SP", "G", "CR", "LF", "LF">>,
      <<"CR", "LF", "LF", "G", "SP", "/", "LF">>,
      <<"H", "SP", "H", "SP", "G", "CR", "LF",
        "G", ":", "G", "CR", "LF", "CR", "LF">>,
      <<"CR", "LF", "H", "SP", "H", "LF", "G", ":", "LF", "LF">>,
      <<"G", "SP", "HI", "SP", "G">> }

IsPrefix(p, t) == Len(p) <= Len(t) /\ SubSeq(t, 1, Len(p)) = p

Streams(t) == Len(t) <= MaxLen \/ \E x \in Samples : IsPrefix(t, x)

\* a proxy with no option set
DefaultProxy == [options |-> {}, options2 |-> {}, state |-> "PR_STREADY"]

NoRequest == [meth |-> "NONE", ver11 |-> FALSE, conn |-> {}, te |-> "none",
              cl |-> FALSE]

\* what the last call of http_process_res_common started from
NoRes == [ran |-> FALSE, pre |-> NoSession]

\* what the last call of the parser did: <next0> the offset it was entered
\* with, <lo> the lowest offset it read at and <del> what it deleted (both
\* counted from the buf->p of its entry), <ch> the byte at <lo> when that
\* is before <next0>
NoScan == [ran |-> FALSE, next0 |-> 0, lo |-> 0, del |-> 0, ch |-> "none"]

Scanned(m, b, r) ==
    [ran |-> TRUE, next0 |-> m.next, lo |-> r.lo, del |-> r.del,
     ch |-> IF r.lo < m.next THEN b[r.lo + 1] ELSE "none"]

\* what the last edit of the header block did: <delta> the displacement
\* the buffer primitive returned, <eoh0> and <size0> the end of headers and
\* the amount of input before it, <entry> the index entry it edited in
\* place (0: none) and <len0> the length of that entry before it;
\* hist.refused: hdr_idx_add has refused a line because the index was full
NoEdit == [ran |-> FALSE, op |-> "none", delta |-> 0, eoh0 |-> 0,
           size0 |-> 0, entry |-> 0, len0 |-> 0]

Edited(op, m, i, b, delta, entry) ==
    [ran |-> TRUE, op |-> op, delta |-> delta, eoh0 |-> m.eoh,
     size0 |-> Len(b), entry |-> entry, len0 |-> i.v[entry].len]

\* what the last call of http_wait_for_request did before it looked at the
\* message: <decision>, whether it <realigned> the buffer and <parsed>
\* (called http_msg_analyzer); <affected> is MarginAffected and <o> the
\* pending output when it was called, <nf> whether the request was not
\* the first one of its connection, <p>, <i> and <next0> are the offset
\* of buf->p, the input and msg->next when it reached the parser,
\* <state0> the state of the message on entry and <before> the decision of
\* the call before this one
NoWait == [ran |-> FALSE, decision |-> "none", parsed |-> FALSE,
           realigned |-> FALSE, affected |-> FALSE, nf |-> FALSE, o |-> 0,
           p |-> 0, i |-> 0, next0 |-> 0, state0 |-> "none",
           before |-> "none"]

\* the body a peer sends and what the forwarding of it has done so far:
\* <wire> the bytes of the body, <kind> how they were made and <sizes>,
\* <payload> the chunks they were made from; <trace> the states the message
\* went through, <parsed> the values http_parse_chunk_size gave to
\* chunk_len, <pay> the bytes forwarded as chunk data; <crlf> the last call
\* of http_skip_chunk_crlf: what it returned, the message before and after
\* it and the input it was given
NoCrlf == [ran |-> FALSE, ret |-> 0, pre |-> <<>>, post |-> <<>>,
           input |-> <<>>]

NoChunks == [wire |-> <<>>, kind |-> "none", sizes |-> <<>>,
             payload |-> <<>>, trace |-> <<>>, parsed |-> <<>>,
             pay |-> <<>>, crlf |-> NoCrlf]

\* the response body a server sends through the compression: <wire> its
\* bytes, <chunked> its framing, <datas> the data of its chunks (of the body
\* for a body with a length); <sent> what the client was sent, <ends> the
\* calls of http_compression_buffer_end, <zeros> those that wrote the zero
\* chunk, <lastzero> whether the last bytes the compression emitted are the
\* zero chunk; <comp> whether a compression algorithm is selected, <pend>
\* the output that waits in the response buffer
NoComp == [wire |-> <<>>, chunked |-> FALSE, comp |-> FALSE, datas |-> <<>>,
           pend |-> <<>>, sent |-> <<>>, ends |-> 0, zeros |-> 0,
           lastzero |-> FALSE]

\* the settings of the compression: global.comp_rate_lim and
\* global.tune.comp_maxlevel; and the last deflate_flush: the rate it read
\* and the level it found
NoLevel == [comp_rate_lim |-> 0, comp_maxlevel |-> 0, ran |-> FALSE,
            rate |-> 0, before |-> 0]

\* the message whose transfer length is looked for: its direction, its
\* version, the values of its Transfer-Encoding and Content-Length headers
\* in their order, the status and the method of the transaction
NoFrame == [dir |-> "none", ver11 |-> FALSE, tes |-> <<>>, cls |-> <<>>,
            status |-> 0, meth |-> "GET", ran |-> FALSE, bad |-> FALSE]

\* TCP content inspection: the direction inspected, now_ms, and the last
\* call of the analyser: whether the delay had expired, the input was shut
\* or full, the option it gave the conditions, what it returned and its
\* decision
NoTcp == [dir |-> "none", now |-> 0, ran |-> FALSE, expired |-> FALSE,
          shutr |-> FALSE, full |-> FALSE, final |-> FALSE, ret |-> 0,
          decision |-> "none", exp0 |-> 0]

\* the PROXY protocol handshake: the bytes the peer sends (<wire>), the
\* length of the PROXY line they start with and the addresses it announces
\* (0 and none when it is not valid), the bytes taken from the socket, the
\* arrivals so far, about the last call of conn_recv_proxy: what it
\* could peek and what it returned; whether frontend_accept ran, and the
\* addresses that the analysers of HTTP requests have read
NoPp == [wire |-> <<>>, line |-> 0, expect |-> <<>>, consumed |-> <<>>,
         pieces |-> 0, ran |-> FALSE, peeked |-> 0, ret |-> 0,
         accepted |-> FALSE, seen |-> {}]

\* a request for the stats page: whether an admin rule matches, the value
\* of its Expect header, the length of its body; the responses put in the
\* response channel so far, the calls of http_handle_stats and whether
\* http_process_req_stat_post has parsed the body
NoStats == [admin |-> FALSE, expect |-> "", body_len |-> 0, sent |-> <<>>,
            calls |-> 0, parsed |-> FALSE]

\* the cookie passes over a request: how many ran, and the buffer as the
\* first one left it
NoCk == [passes |-> 0, after1 |-> <<>>, before |-> <<>>]

\* the last call of the parser on a message that was in state ERROR: the
\* offset next and the header index it was entered with
NoAgain == [ran |-> FALSE, next0 |-> 0, idx0 |-> <<>>]

\* the error paths a session went through: how many (two stands for two or
\* more), and the cause and the phase the first of them gave
NoTerm == [paths |-> 0, err |-> {}, finst |-> {}]

\* the response filters of the proxy, and about the call of
\* apply_filters_to_response: the filters it applied, in the order it
\* applied them, what it returned, and whether it read exp->next of a
\* null pointer
NoFlt == [fs |-> <<>>, ran |-> FALSE, applied |-> <<>>, ret |-> 0,
          fault |-> FALSE]

\* the last call of http_wait_for_request on a connection that may fail:
\* the status of the error message it sent (0 for none), the bytes of the
\* request received so far, whether the request was the first one, the
\* failure of the client side it was called with, and its decision
NoNreq == [ran |-> FALSE, sent |-> 0, got |-> 0, nf |-> FALSE,
           fail |-> "none", decision |-> "none"]

\* errors during a transaction: which response bytes were forwarded
\* ("none", "interim" for a 100, "final"), and about the last call of an
\* analyser: its name, what had been forwarded and the status on entry,
\* whether its channel had a write error, whether it sent an error message
NoErr == [fwd |-> "none", an |-> "none", fwd0 |-> "none", status0 |-> 0,
          werr |-> FALSE, msg |-> FALSE]

\* the http-request rules and the tarpit: the date, what the last call of
\* http_process_req_common returned, the rule that intercepted the request
\* (0 for none), the headers the rules left in the request, and what the
\* last call of http_process_tarpit saw and did
NoRule == [now |-> 1, ran |-> FALSE, ret |-> 0, rule |-> 0, hdrs |-> <<>>,
           pit |-> FALSE, expired |-> FALSE, shutr |-> FALSE,
           err |-> FALSE, sent |-> FALSE, fwd |-> FALSE]

NoHist == [rq |-> NoRequest, rp |-> NoResponse, res |-> NoRes,
           sync |-> NoSync, txns |-> 0, scan |-> NoScan, edit |-> NoEdit,
           refused |-> FALSE, wait |-> NoWait, chunks |-> NoChunks,
           comp |-> NoComp, level |-> NoLevel, frame |-> NoFrame,
           tcp |-> NoTcp, rule |-> NoRule, err |-> NoErr, nreq |-> NoNreq,
           pp |-> NoPp, stats |-> NoStats, ck |-> NoCk, flt |-> NoFlt,
           term |-> NoTerm, again |-> NoAgain]

\* no walk of the headers is in progress
NoFind == [c |-> NoCtx, at |-> "none", name |-> <<>>]

\* http_init_txn: requests tolerate buggy bytes with PR_O2_REQBUG_OK.
\* A request starts with nothing pending in its buffer; a response may
\* follow an interim response that is still on its way to the client.
InitParser ==
    /\ \E st \in {"RQBEFORE", "RPBEFORE"}, ep \in {-2, -1} :
          /\ st = "RPBEFORE" => ep = -2
          /\ msg = InitMsg(st, ep)
          /\ first = InitMsg(st, ep)
          /\ o \in 0..MaxOut
          /\ st = "RQBEFORE" => o = 0
    /\ idx = hdr_idx_init(EmptyIdx)
    /\ buf = <<>>
    /\ buf_p = 0
    /\ stream = <<>>
    /\ ctx = NoFind
    /\ s = InitSession(DefaultProxy)
    /\ backend = DefaultProxy
    /\ hist = NoHist

\* a read delivers a piece, then the analyser calls the parser
Recv(piece) ==
    /\ Streams(stream \o piece)
    /\ \E r \in {ParseMore(msg, idx, buf \o piece, o)} :
          /\ msg' = r.m
          /\ idx' = r.idx
          /\ buf' = r.buf
          /\ hist' = [hist EXCEPT !.scan = Scanned(msg, buf \o piece, r)]
    /\ stream' = stream \o piece
    /\ UNCHANGED <<buf_p, o, first, ctx, s, backend>>

\* the pending output leaves the buffer, the analyser is called again
Flush ==
    /\ o > 0
    /\ o' = 0
    /\ \E r \in {ParseMore(msg, idx, buf, 0)} :
          /\ msg' = r.m
          /\ idx' = r.idx
          /\ buf' = r.buf
          /\ hist' = [hist EXCEPT !.scan = Scanned(msg, buf, r)]
    /\ UNCHANGED <<buf_p, stream, first, ctx, s, backend>>

NextParser ==
    \/ \E piece \in Pieces : Recv(piece)
    \/ Flush

SpecParser == InitParser /\ [][NextParser]_vars

\* the parser called once on the whole stream, with the same pending output
Whole == ParseMore(first, hdr_idx_init(EmptyIdx), stream, o)

Outcome(m, i) ==
    [msg_state |-> m.msg_state, sol |-> m.sol, eoh |-> m.eoh,
     sov |-> m.sov, next |-> m.next, idx |-> i]

\* C1: for any byte stream and any split of it into pieces, calling the
\* parser after each piece ends in the same message state, the same
\* offsets (sol, eoh, sov, next) and the same header index as a single
\* call on the whole stream.
C1_Resumable == Outcome(msg, idx) = Outcome(Whole.m, Whole.idx)

(***************************************************************************)
(* C11: the parser resumes where it stopped.                               *)
(***************************************************************************)
Scan == hist.scan

\* the parser is suspended in the headers of a message
Suspended == Scan.ran /\ InHeaders(msg.msg_state)

\* a message whose first token waits for the pending output to leave
WaitsForOutput ==
    /\ o > 0
    /\ msg.msg_state \in {"RQBEFORE", "RQBEFORE_CR", "RPBEFORE", "RPBEFORE_CR"}

\* C11 as stated: when the parser suspends for lack of data it stores its
\* state and the next offset, and on the next call it resumes at exactly
\* that position; next (as a position in the stream) never moves backwards
\* between calls on the same message and no byte before it is examined
\* again.
C11_NoRescan ==
    Scan.ran =>
        /\ Scan.del + msg.next >= Scan.next0
        /\ Scan.lo >= Scan.next0
        /\ Suspended => msg.next = Len(buf) \/ WaitsForOutput

\* C11: the parser stores its state and next on every suspension; when it
\* suspends for lack of data next is the end of the received bytes (a first
\* token that waits for pending output to leave is the one exception), and
\* the position next designates in the stream never moves backwards
\* between calls, although the offset itself is rebased when leading empty
\* lines are deleted.  A call examines no byte before the next it was
\* entered with, except the CR or LF that ends the header line it
\* completes, which it reads again to record how the line ends.
C11_Resumes ==
    Scan.ran =>
        /\ Scan.del + msg.next >= Scan.next0
        /\ Scan.lo >= Scan.next0 \/ Scan.ch \in {"CR", "LF"}
        /\ Suspended => msg.next = Len(buf) \/ WaitsForOutput

\* a call that resumed in the middle of a message and went further
C11_Witness ==
    /\ Suspended
    /\ Scan.next0 > 0
    /\ msg.next > Scan.next0
    /\ Scan.del = 0
    /\ msg.msg_state \notin {"RQBEFORE", "RQBEFORE_CR", "RPBEFORE",
                             "RPBEFORE_CR"}

(***************************************************************************)
(* C15: leading empty lines.                                               *)
(***************************************************************************)
BeforeStates == {"RQBEFORE", "RQBEFORE_CR", "RPBEFORE", "RPBEFORE_CR"}

\* the stream starts with an empty line
LeadingEmptyLine == Len(stream) > 0 /\ HTTP_IS_CRLF(stream[1])

\* C15: the parser skips leading empty lines (CRLF or LF) before a start
\* line only when the buffer has no pending output (o == 0): it deletes
\* bytes only then, and a message that has left the states before the start
\* line begins at offset 0 of the buffer.  While output is pending it
\* removes none of them from the buffer and waits in front of the start
\* line (or fails).
C15_SkipWhenEmpty ==
    Scan.ran =>
        /\ Scan.del > 0 => o = 0
        /\ o > 0 /\ LeadingEmptyLine =>
              /\ buf = stream
              /\ msg.msg_state \in BeforeStates \cup {"ERROR"}
        /\ msg.msg_state \notin BeforeStates \cup {"ERROR"} =>
              /\ HTTP_IS_TOKEN(buf[1])
              /\ msg.sol = 0 \/ msg.msg_state \notin
                                   ReqLineLabels \cup StsLineLabels

\* a response waits behind two empty lines for the output to leave
C15_Witness ==
    /\ Scan.ran
    /\ o > 0
    /\ msg.msg_state \in BeforeStates
    /\ msg.next = 2
    /\ Len(buf) > 2
    /\ HTTP_IS_TOKEN(buf[3])
    /\ buf = stream

(***************************************************************************)
(* C16: parse errors.                                                      *)
(***************************************************************************)
\* the parser, called once on the first <k> bytes of the stream with no
\* pending output, finds them invalid
ErrAt(k) ==
    ParseMore(first, hdr_idx_init(EmptyIdx), SubSeq(stream, 1, k), 0)
        .m.msg_state = "ERROR"

\* position in the stream of the byte msg.next designates
NextPos == Len(stream) - Len(buf) + msg.next

\* C16 as stated: whenever the message parser fails on invalid input, the
\* message state is ERROR and err_pos holds the position of the offending
\* byte.
C16_ErrPos ==
    msg.msg_state = "ERROR" =>
        /\ NextPos < Len(stream)
        /\ msg.err_pos = msg.next

\* C16: whenever the message parser fails on invalid input, the message
\* state is ERROR and next holds the position of the offending byte, the
\* first byte that makes the message invalid.  err_pos holds that position
\* too for a forbidden character of the request URI; otherwise the parser
\* leaves err_pos as it was: negative, or, when invalid requests are
\* accepted, at the first invalid byte it had tolerated.
C16_ErrorAtNext ==
    msg.msg_state = "ERROR" =>
        /\ NextPos < Len(stream)
        /\ first.msg_state = "RQBEFORE" \/ ~LeadingEmptyLine =>
              ErrAt(NextPos + 1) /\ ~ErrAt(NextPos)
        /\ \/ msg.err_pos = first.err_pos
           \/ msg.err_pos = msg.next /\ first.msg_state = "RQBEFORE"
           \/ /\ first.err_pos = -1
              /\ msg.err_pos >= 0
              /\ msg.err_pos < msg.next

\* an invalid header name: ERROR with next on the offending byte and
\* err_pos not set
C16_Witness ==
    /\ msg.msg_state = "ERROR"
    /\ Scan.next0 > 0
    /\ msg.next > Scan.next0
    /\ msg.err_pos = -2
    /\ ErrAt(NextPos + 1)
    /\ ~ErrAt(NextPos)

(***************************************************************************)
(* Connection mode of a request: the request analysers up to the backend's *)
(* http_process_req_common, for every pair of proxies.                     *)
(***************************************************************************)
ParserIdle ==
    /\ msg = InitMsg("RQBEFORE", -2)
    /\ first = InitMsg("RQBEFORE", -2)
    /\ idx = hdr_idx_init(EmptyIdx)
    /\ buf = <<>>
    /\ buf_p = 0
    /\ o = 0
    /\ stream = <<>>
    /\ ctx = NoFind

ModeProxies == {p \in Proxies : "PR_O_ABRT_CLOSE" \notin p.options}

InitMode ==
    /\ ParserIdle
    /\ \E fe \in ModeProxies : s = InitSession(fe)
    /\ backend \in {p \in ModeProxies : p.state = "PR_STREADY"}
    /\ hist = NoHist

ReqNext == NextAnalyser(ReqAnalysers, s.req.analysers)

\* a complete request has been parsed
WaitForRequest(rq) ==
    /\ ReqNext = "AN_REQ_WAIT_HTTP"
    /\ s.txn.req.msg_state = "RQBEFORE"
    /\ s' = http_wait_for_request(s, rq, "AN_REQ_WAIT_HTTP")
    /\ hist.txns < MaxTxn
    /\ hist' = [NoHist EXCEPT !.rq = rq, !.txns = hist.txns + 1]
    /\ UNCHANGED <<backend, pvars>>

ProcessReqFE ==
    /\ ReqNext = "AN_REQ_HTTP_PROCESS_FE"
    /\ s' = http_process_req_common(s, "AN_REQ_HTTP_PROCESS_FE")
    /\ UNCHANGED <<backend, hist, pvars>>

\* the switching rules assign the backend and add its analysers
SwitchingRules ==
    /\ ReqNext = "AN_REQ_SWITCHING_RULES"
    /\ s' = [s EXCEPT !.be = backend,
                       !.req.analysers =
                           (@ \ {"AN_REQ_SWITCHING_RULES"}) \cup
                           {"AN_REQ_HTTP_PROCESS_BE", "AN_REQ_HTTP_INNER"}]
    /\ UNCHANGED <<backend, hist, pvars>>

ProcessReqBE ==
    /\ ReqNext = "AN_REQ_HTTP_PROCESS_BE"
    /\ s' = http_process_req_common(s, "AN_REQ_HTTP_PROCESS_BE")
    /\ UNCHANGED <<backend, hist, pvars>>

ModeRequests == {rq \in Requests : rq.meth = "GET" /\ ~rq.cl}

NextMode ==
    \/ \E rq \in ModeRequests : WaitForRequest(rq)
    \/ ProcessReqFE
    \/ SwitchingRules
    \/ ProcessReqBE

SpecMode == InitMode /\ [][NextMode]_vars

\* both calls of http_process_req_common are over
ModeSelected == ReqNext = "AN_REQ_HTTP_INNER"

\* what the client or the frontend's state asks a close with
CloseAsked ==
    \/ "close" \in hist.rq.conn
    \/ ~hist.rq.ver11 /\ "keep-alive" \notin hist.rq.conn
    \/ hist.rq.ver11 /\ hist.rq.te = "bad"
    \/ s.fe.state = "PR_STSTOPPED"

SetOpts == (s.fe.options \cup s.be.options) \cap ModeOpts

PrecedenceMode ==
    IF "PR_O_FORCE_CLO" \in SetOpts THEN "CLO"
    ELSE IF "PR_O_HTTP_CLOSE" \in SetOpts THEN "CLO"
    ELSE IF "PR_O_SERVER_CLO" \in SetOpts THEN "SCL"
    ELSE IF "PR_O_KEEPALIVE" \in SetOpts THEN "KAL"
    ELSE "TUN"

\* C2 as stated: for every combination of frontend options, backend
\* options, request version and Connection tokens, the mode chosen after
\* the request headers is the one the precedence FORCE_CLOSE > HTTP_CLOSE >
\* SERVER_CLOSE > KEEP_ALIVE > TUNNEL gives on the options set on the
\* frontend or on the backend (or CLO when the request asks for a close).
C2_Precedence ==
    ModeSelected =>
        \/ s.txn.con_want = PrecedenceMode
        \/ s.txn.con_want = "CLO" /\ CloseAsked

\* fake keep-alive counts when the mode is computed with it in sight
FakeKa ==
    \/ "PR_O2_FAKE_KA" \in s.fe.options2
    \/ /\ "PR_O2_FAKE_KA" \in s.be.options2
       /\ s.fe.options \cap ModeOpts # s.be.options \cap ModeOpts

OptionMode ==
    IF "PR_O_FORCE_CLO" \in SetOpts THEN "CLO"
    ELSE IF "PR_O_SERVER_CLO" \in SetOpts THEN "SCL"
    ELSE IF "PR_O_KEEPALIVE" \in SetOpts \/ (FakeKa /\ SetOpts # {}) THEN "KAL"
    ELSE "TUN"

\* C2: for every combination of frontend options, backend options, request
\* version and Connection tokens, the mode chosen after the request headers
\* is given by the precedence FORCE_CLOSE > SERVER_CLOSE > KEEP_ALIVE >
\* TUNNEL on the options set on the frontend or on the backend; HTTP_CLOSE
\* selects no mode by itself (TUNNEL remains) but turns KAL and SCL into
\* CLO, as does a request that asks for a close.
C2_ModeTable ==
    ModeSelected =>
        s.txn.con_want =
            IF OptionMode \in {"KAL", "SCL"}
               /\ ("PR_O_HTTP_CLOSE" \in SetOpts \/ CloseAsked)
            THEN "CLO" ELSE OptionMode

\* httpclose with server-close on different proxies ends in CLO
C2_Witness ==
    /\ ModeSelected
    /\ s.fe.options = {"PR_O_HTTP_CLOSE"}
    /\ s.be.options = {"PR_O_SERVER_CLO"}
    /\ ~CloseAsked
    /\ s.txn.con_want = "CLO"

\* C3 as stated: after the mode selection on a request, the mode is CLO
\* whenever the client sent Connection: close, or the request is HTTP/1.0
\* without Connection: keep-alive, or its transfer length is unknown, or
\* the frontend is stopping.
C3_CloseAsked == ModeSelected /\ CloseAsked => s.txn.con_want = "CLO"

\* C3: after the mode selection on a request with keep-alive, server-close
\* or forceclose set on the frontend or on the backend, the mode is CLO
\* whenever the client sent Connection: close, or the request is HTTP/1.0
\* without Connection: keep-alive, or its transfer length is unknown, or
\* the frontend is stopping.
C3_Downgrade ==
    /\ ModeSelected
    /\ CloseAsked
    /\ SetOpts \cap {"PR_O_KEEPALIVE", "PR_O_SERVER_CLO", "PR_O_FORCE_CLO"} # {}
    => s.txn.con_want = "CLO"

\* an HTTP/1.0 request without keep-alive under "option http-keep-alive"
C3_Witness ==
    /\ ModeSelected
    /\ SetOpts = {"PR_O_KEEPALIVE"}
    /\ ~hist.rq.ver11 /\ hist.rq.conn = {}
    /\ s.fe.state = "PR_STREADY"
    /\ s.txn.con_want = "CLO"

(***************************************************************************)
(* Life of a session: requests, the server's responses, body forwarding    *)
(* and the events of both connections.                                     *)
(***************************************************************************)
LifeFrontends ==
    {p \in Proxies : /\ p.options \in {{}, {"PR_O_KEEPALIVE"},
                                        {"PR_O_SERVER_CLO"},
                                        {"PR_O_FORCE_CLO"},
                                        {"PR_O_HTTP_CLOSE"}}
                     /\ p.options2 = {}
                     /\ p.state = "PR_STREADY"}

\* no use_backend rule (the frontend is its own backend), or a backend
\* that differs by "option abortonclose"
LifeBackends(fe) ==
    {fe} \cup (IF fe.options = {"PR_O_SERVER_CLO"}
               THEN {[fe EXCEPT !.options = @ \cup {"PR_O_ABRT_CLOSE"}]}
               ELSE {})

LifeRequests ==
    {rq \in Requests :
        \/ rq.meth = "GET" /\ rq.te = "none" /\ ~rq.cl
              /\ rq.conn = {}
        \/ rq.meth = "POST" /\ rq.ver11 /\ rq.conn = {}
              /\ rq.te = "none" /\ rq.cl
        \/ rq.meth = "CONNECT" /\ rq.ver11 /\ rq.conn = {}
              /\ rq.te = "none" /\ ~rq.cl}

LifeResponses ==
    {rp \in Responses :
        \/ rp.status = 200 /\ rp.te = "none" /\ rp.cl
              /\ <<rp.ver11, rp.conn>> \in {<<TRUE, {}>>, <<TRUE, {"close"}>>,
                                            <<FALSE, {}>>,
                                            <<FALSE, {"keep-alive"}>>}
        \/ rp.status = 200 /\ rp.te = "none" /\ ~rp.cl /\ rp.ver11
              /\ rp.conn = {}
        \/ rp.status \in {100, 101, 102} /\ rp.ver11 /\ rp.conn = {}
              /\ rp.te = "none" /\ ~rp.cl}

Init ==
    /\ ParserIdle
    /\ \E fe \in LifeFrontends :
          /\ s = InitSession(fe)
          /\ backend \in LifeBackends(fe)
    /\ hist = NoHist

ResNext == NextAnalyser(ResAnalysers, s.rep.analysers)

\* a step that is neither http_process_res_common nor a resync
Quiet == hist' = [hist EXCEPT !.res = NoRes, !.sync = NoSync]

\* AN_REQ_HTTP_INNER
ProcessRequest ==
    /\ ReqNext = "AN_REQ_HTTP_INNER"
    /\ s' = http_process_request(s, "AN_REQ_HTTP_INNER")
    /\ Quiet
    /\ UNCHANGED <<backend, pvars>>

\* the connection to the server is established: the response analysers
\* of the backend are installed
Connect ==
    /\ s.srv.state = "SI_ST_INI"
    /\ ReqNext \in {"AN_REQ_HTTP_XFER_BODY", "none"}
    /\ s.txn.req.msg_state = "BODY"
    /\ s.req.flags \cap {"CF_SHUTW", "CF_SHUTW_NOW"} = {}
    /\ s' = [s EXCEPT !.srv.state = "SI_ST_EST",
                       !.rep.analysers = @ \cup {"AN_RES_WAIT_HTTP",
                                                 "AN_RES_HTTP_PROCESS_BE"}]
    /\ Quiet
    /\ UNCHANGED <<backend, pvars>>

\* what a body forwarding analyser may be given in message state <st> of
\* a message with flags <fl>
BodyInput(st, fl, more, fwd) ==
    /\ more => /\ st \in {"BODY", "DATA"}
               /\ fl \cap {"HTTP_MSGF_CNT_LEN", "HTTP_MSGF_TE_CHNK"} # {}
    /\ st = "BODY" => fwd = 1
    /\ st \notin {"BODY", "DATA"} => fwd = 0

RequestForwardBody(more, fwd) ==
    /\ ReqNext = "AN_REQ_HTTP_XFER_BODY"
    /\ s.srv.state = "SI_ST_EST"
    /\ BodyInput(s.txn.req.msg_state, s.txn.req.flags, more, fwd)
    /\ \E r \in {http_request_forward_body(s, more, fwd)} :
           /\ s' = r.x
           /\ hist' = [hist EXCEPT !.res = NoRes, !.sync = r.r]
    /\ UNCHANGED <<backend, pvars>>

WaitForResponse(rp) ==
    /\ ResNext = "AN_RES_WAIT_HTTP"
    /\ rp # NoResponse => "CF_SHUTR" \notin s.rep.flags
    /\ s' = http_wait_for_response(s, rp, "AN_RES_WAIT_HTTP")
    /\ hist' = [hist EXCEPT !.rp = rp, !.res = NoRes, !.sync = NoSync]
    /\ UNCHANGED <<backend, pvars>>

ProcessRes ==
    /\ ResNext = "AN_RES_HTTP_PROCESS_BE"
    /\ ~Before(s.txn.rsp.msg_state, "BODY")
    /\ s' = http_process_res_common(s, "AN_RES_HTTP_PROCESS_BE")
    /\ hist' = [hist EXCEPT !.res = [ran |-> TRUE, pre |-> s],
                            !.sync = NoSync]
    /\ UNCHANGED <<backend, pvars>>

ResponseForwardBody(more, fwd) ==
    /\ ResNext = "AN_RES_HTTP_XFER_BODY"
    /\ BodyInput(s.txn.rsp.msg_state, s.txn.rsp.flags, more, fwd)
    /\ \E r \in {http_response_forward_body(s, more, fwd)} :
           /\ s' = r.x
           /\ hist' = [hist EXCEPT !.res = NoRes, !.sync = r.r]
    /\ UNCHANGED <<backend, pvars>>

\* pending output leaves a channel's buffer
Drain(dir) ==
    /\ s[dir].o > 0
    /\ "CF_SHUTW" \notin s[dir].flags
    /\ dir = "req" => s.srv.state = "SI_ST_EST"
    /\ s' = [s EXCEPT ![dir].o = @ - 1]
    /\ Quiet
    /\ UNCHANGED <<backend, pvars>>

\* a requested shutdown of the write side is done once the output is empty
Shutw(dir) ==
    /\ "CF_SHUTW_NOW" \in s[dir].flags
    /\ "CF_SHUTW" \notin s[dir].flags
    /\ channel_is_empty(s[dir])
    /\ s' = [s EXCEPT ![dir].flags = (@ \ {"CF_SHUTW_NOW"}) \cup {"CF_SHUTW"}]
    /\ Quiet
    /\ UNCHANGED <<backend, pvars>>

\* a requested shutdown of the read side is done
Shutr(dir) ==
    /\ "CF_SHUTR_NOW" \in s[dir].flags
    /\ "CF_SHUTR" \notin s[dir].flags
    /\ s' = [s EXCEPT ![dir].flags = (@ \ {"CF_SHUTR_NOW"}) \cup {"CF_SHUTR"}]
    /\ Quiet
    /\ UNCHANGED <<backend, pvars>>

\* a close seen on the read side is forwarded to the write side of a
\* channel with CF_AUTO_CLOSE
ForwardClose(dir) ==
    /\ {"CF_SHUTR", "CF_AUTO_CLOSE"} \subseteq s[dir].flags
    /\ s[dir].flags \cap {"CF_SHUTW", "CF_SHUTW_NOW"} = {}
    /\ s' = [s EXCEPT ![dir].flags = @ \cup {"CF_SHUTW_NOW"}]
    /\ Quiet
    /\ UNCHANGED <<backend, pvars>>

\* the server closes its connection; with SI_FL_NOHALF the close is
\* applied at once to the write side too
ServerClose ==
    /\ s.srv.state = "SI_ST_EST"
    /\ "CF_SHUTR" \notin s.rep.flags
    /\ s' = [s EXCEPT !.rep.flags = (@ \ {"CF_SHUTR_NOW"}) \cup {"CF_SHUTR"},
                       !.req.flags = IF "SI_FL_NOHALF" \in s.srv.flags
                                     THEN (@ \ {"CF_SHUTW_NOW"})
                                              \cup {"CF_SHUTW"}
                                     ELSE @]
    /\ Quiet
    /\ UNCHANGED <<backend, pvars>>

\* the client closes its side after a request
ClientClose ==
    /\ ~Before(s.txn.req.msg_state, "BODY")
    /\ "CF_SHUTR" \notin s.req.flags
    /\ s' = [s EXCEPT !.req.flags = (@ \ {"CF_SHUTR_NOW"}) \cup {"CF_SHUTR"}]
    /\ Quiet
    /\ UNCHANGED <<backend, pvars>>

Next ==
    \/ \E rq \in LifeRequests : WaitForRequest(rq)
    \/ ProcessReqFE
    \/ SwitchingRules
    \/ ProcessReqBE
    \/ ProcessRequest
    \/ Connect
    \/ \E more \in BOOLEAN, fwd \in 0..1 : RequestForwardBody(more, fwd)
    \/ \E rp \in LifeResponses \cup {NoResponse} : WaitForResponse(rp)
    \/ ProcessRes
    \/ \E more \in BOOLEAN, fwd \in 0..1 : ResponseForwardBody(more, fwd)
    \/ \E dir \in {"req", "rep"} : Drain(dir)
    \/ \E dir \in {"req", "rep"} : Shutw(dir)
    \/ \E dir \in {"req", "rep"} : Shutr(dir)
    \/ \E dir \in {"req", "rep"} : ForwardClose(dir)
    \/ ServerClose
    \/ ClientClose

Spec == Init /\ [][Next]_vars

(***************************************************************************)
(* The resync and the tunnel.                                              *)
(***************************************************************************)
\* the last step called http_resync_states; Ret is the session it returned
Ret == hist.sync.ret

TunnelSeen ==
    /\ hist.sync.ran
    /\ "TUNNEL" \in {Ret.txn.req.msg_state, Ret.txn.rsp.msg_state}

\* C4 as stated: whenever either direction's message state becomes TUNNEL,
\* by the time http_resync_states returns the other direction's message
\* state is TUNNEL too and the analysers of both channels are cleared.
C4_BothTunnel ==
    TunnelSeen =>
        /\ Ret.txn.req.msg_state = "TUNNEL"
        /\ Ret.txn.rsp.msg_state = "TUNNEL"
        /\ Ret.req.analysers = {}
        /\ Ret.rep.analysers = {}

\* a direction whose write side is shut or about to be, and whose state
\* went on to CLOSING or CLOSED
ClosedInstead(st, chn) ==
    /\ st \in {"CLOSING", "CLOSED"}
    /\ chn.flags \cap {"CF_SHUTW", "CF_SHUTW_NOW"} # {}

\* C4: whenever either direction's message state is TUNNEL when
\* http_resync_states returns, the analysers of both channels are cleared,
\* the response is in TUNNEL, and the request is in TUNNEL too unless the
\* write side of its channel is shut or about to be: it is then CLOSING or
\* CLOSED.
C4_Tunnel ==
    TunnelSeen =>
        /\ Ret.txn.rsp.msg_state = "TUNNEL"
        /\ \/ Ret.txn.req.msg_state = "TUNNEL"
           \/ ClosedInstead(Ret.txn.req.msg_state, Ret.req)
        /\ Ret.req.analysers = {}
        /\ Ret.rep.analysers = {}

\* a keep-alive transaction whose two messages were DONE ends in a tunnel
C4_Witness ==
    /\ hist.sync.ran
    /\ hist.sync.pre.txn.con_want = "KAL"
    /\ hist.sync.pre.txn.req.msg_state = "DONE"
    /\ hist.sync.pre.txn.rsp.msg_state = "DONE"
    /\ Ret.txn.req.msg_state = "TUNNEL"
    /\ Ret.txn.rsp.msg_state = "TUNNEL"
    /\ Ret.req.analysers = {}
    /\ Ret.rep.analysers = {}

(***************************************************************************)
(* Server-close.                                                           *)
(***************************************************************************)
\* the session when the last resync was called, and at the end of its loop
Pre  == hist.sync.pre
Post == hist.sync.post

\* a resync was called in server-close mode with both messages DONE
BothDoneSCL ==
    /\ hist.sync.ran
    /\ Pre.txn.con_want = "SCL"
    /\ Pre.txn.req.msg_state = "DONE"
    /\ Pre.txn.rsp.msg_state = "DONE"

ShutwAsked(chn) == chn.flags \cap {"CF_SHUTW", "CF_SHUTW_NOW"} # {}

\* C5 as stated: in SCL mode, once request and response are both DONE, the
\* request side requests a write shutdown towards the server, the request
\* state becomes CLOSED only when the output of the request channel is
\* empty, and it stays CLOSING while data is still pending.
C5_ClosingWhilePending ==
    BothDoneSCL =>
        /\ ShutwAsked(Post.req)
        /\ Post.txn.req.msg_state = "CLOSED" => channel_is_empty(Post.req)
        /\ ~channel_is_empty(Post.req) => Post.txn.req.msg_state = "CLOSING"

\* C5: in SCL mode, once request and response are both DONE, the request
\* side requests a write shutdown towards the server unless one is already
\* requested or done; the request state becomes CLOSED exactly when the
\* output of the request channel is empty; while data is pending it stays
\* CLOSING, except that it goes to ERROR when the write side is already
\* shut.
C5_ServerClose ==
    BothDoneSCL =>
        /\ ShutwAsked(Post.req)
        /\ Post.txn.req.msg_state = "CLOSED" <=> channel_is_empty(Post.req)
        /\ ~channel_is_empty(Post.req) =>
              Post.txn.req.msg_state =
                  IF "CF_SHUTW" \in Post.req.flags THEN "ERROR" ELSE "CLOSING"

\* the request waits in CLOSING for its output to leave
C5_Witness ==
    /\ BothDoneSCL
    /\ ~ShutwAsked(Pre.req)
    /\ "CF_SHUTW_NOW" \in Post.req.flags
    /\ ~channel_is_empty(Post.req)
    /\ Post.txn.req.msg_state = "CLOSING"

(***************************************************************************)
(* End of a transaction.                                                   *)
(***************************************************************************)
\* the loop of the last resync ended with the request CLOSED and the
\* response DONE in server-close mode
ClosedDoneSCL ==
    /\ hist.sync.ran
    /\ Post.txn.req.msg_state = "CLOSED"
    /\ Post.txn.rsp.msg_state = "DONE"
    /\ Post.txn.con_want = "SCL"

\* C6: when the request is CLOSED, the response is DONE and the mode is
\* SCL, the resync ends the transaction: the connection to the server is
\* closed, both messages are back in their initial states (RQBEFORE and
\* RPBEFORE), and the client's connection is kept (no shutdown is pending
\* towards the client and none of its read side) and waits for the next
\* request with the analysers of the listener.
C6_EndTxn ==
    ClosedDoneSCL =>
        /\ Ret.srv.state = "SI_ST_INI"
        /\ ~ShutwAsked(Ret.req)
        /\ Ret.txn.req.msg_state = "RQBEFORE"
        /\ Ret.txn.rsp.msg_state = "RPBEFORE"
        /\ ~ShutwAsked(Ret.rep)
        /\ "CF_SHUTR_NOW" \notin Ret.req.flags
        /\ "TX_WAIT_NEXT_RQ" \in Ret.txn.flags
        /\ Ret.req.analysers = ListenerAnalysers
        /\ Ret.rep.analysers = {}

\* a transaction ended by the resync the response side called
C6_Witness ==
    /\ ClosedDoneSCL
    /\ Pre.txn.req.msg_state = "DONE"
    /\ Pre.srv.state = "SI_ST_EST"
    /\ Ret.srv.state = "SI_ST_INI"
    /\ Ret.txn.req.msg_state = "RQBEFORE"
    /\ s = Ret

(***************************************************************************)
(* Abort of both directions.                                               *)
(***************************************************************************)
\* C7: if after a resync the response is in ERROR, or request and response
\* are both CLOSED, the analysers of both channels are cleared: no body is
\* forwarded any more in either direction.
C7_Aborted ==
    /\ hist.sync.ran
    /\ \/ Ret.txn.rsp.msg_state = "ERROR"
       \/ Ret.txn.req.msg_state = "CLOSED" /\ Ret.txn.rsp.msg_state = "CLOSED"
    => /\ Ret.req.analysers = {}
       /\ Ret.rep.analysers = {}
       /\ s.req.analysers = {}
       /\ s.rep.analysers = {}

\* the response fails while the request is still being sent
C7_Witness ==
    /\ hist.sync.ran
    /\ Pre.txn.rsp.msg_state = "ERROR"
    /\ Before(Pre.txn.req.msg_state, "DONE")
    /\ Pre.req.analysers # {}
    /\ Ret.txn.rsp.msg_state = "ERROR"
    /\ s.req.analysers = {}
    /\ s.rep.analysers = {}

(***************************************************************************)
(* Convergence of the resync loop.                                         *)
(***************************************************************************)
\* neither sync function changes a message state or a channel flag of x
Fixed(x) ==
    /\ ~ReqChanged(x, http_sync_req_state(x))
    /\ ~ResChanged(x, http_sync_res_state(x))

\* C8 as stated: every run of the resync loop terminates, and when
\* http_resync_states returns both directions are at a fixed point:
\* running http_sync_req_state or http_sync_res_state again changes no
\* message state and no channel flag.
C8_FixedOnReturn == hist.sync.ran => hist.sync.ok /\ Fixed(Ret)

\* C8: every run of the resync loop terminates, and when the loop ends
\* both directions are at a fixed point: running http_sync_req_state or
\* http_sync_res_state again changes no message state and no channel flag.
\* When http_resync_states returns this still holds of the message states
\* and of the flags of the response channel; of the flags of the request
\* channel it holds except for CF_DONT_READ, which the abort of a request
\* in DONE has cleared and http_sync_req_state would set again.
C8_Converges ==
    hist.sync.ran =>
        /\ hist.sync.ok
        /\ Fixed(Post)
        /\ http_sync_req_state(Ret).txn = Ret.txn
        /\ ~ResChanged(Ret, http_sync_res_state(Ret))
        /\ \/ http_sync_req_state(Ret).req.flags = Ret.req.flags
           \/ /\ http_sync_req_state(Ret).req.flags =
                    Ret.req.flags \cup {"CF_DONT_READ"}
              /\ Ret.txn.req.msg_state = "DONE"
              /\ MustAbort(Post)

\* a loop that needed its three calls
C8_Witness ==
    /\ hist.sync.ran
    /\ hist.sync.ok
    /\ hist.sync.n = 3
    /\ ResChanged(http_sync_req_state(Pre),
                  http_sync_res_state(http_sync_req_state(Pre)))
    /\ Fixed(Post)

(***************************************************************************)
(* An HTTP/1.0 request without keep-alive.                                 *)
(***************************************************************************)
\* 'GET / HTTP/1.0' without a Connection header, keep-alive not enabled on
\* the frontend, no backend other than the frontend itself
Get10 ==
    /\ hist.rq = [meth |-> "GET", ver11 |-> FALSE, conn |-> {},
                  te |-> "none", cl |-> FALSE]
    /\ "PR_O_KEEPALIVE" \notin s.fe.options
    /\ backend = s.fe

\* the last resync was called with both messages DONE
BothDone ==
    /\ hist.sync.ran
    /\ Pre.txn.req.msg_state = "DONE"
    /\ Pre.txn.rsp.msg_state = "DONE"

\* the state of a message once its direction is being closed
Closes(st, chn) ==
    /\ ShutwAsked(chn)
    /\ st = IF channel_is_empty(chn) THEN "CLOSED"
            ELSE IF "CF_SHUTW" \in chn.flags THEN "ERROR" ELSE "CLOSING"

ResInKal ==
    /\ hist.res.ran
    /\ hist.res.pre.txn.con_want = "KAL"

\* the server forces a close: "Connection: close", or an HTTP/1.0 response
\* without "Connection: keep-alive"
ServerForcesClose ==
    \/ "close" \in hist.rp.conn
    \/ ~hist.rp.ver11 /\ "keep-alive" \notin hist.rp.conn

\* the response is a final one that opens no tunnel and has a known length
FinalResponse ==
    /\ hist.rp.status >= 200
    /\ hist.rq.meth # "CONNECT"
    /\ "HTTP_MSGF_XFER_LEN" \in hist.res.pre.txn.rsp.flags

\* C10 as stated: while processing response headers in KAL mode, if the
\* server forces a close (Connection: close in the response, or an HTTP/1.0
\* response without Connection: keep-alive), the mode is downgraded to SCL.
C10_Downgrade ==
    ResInKal /\ ServerForcesClose => s.txn.con_want = "SCL"

\* C10 read for final responses only: as C10_Downgrade, for a response with
\* a status of 200 or more and a known length, to a request other than
\* CONNECT.
C10_DowngradeFinal ==
    ResInKal /\ ServerForcesClose /\ FinalResponse => s.txn.con_want = "SCL"

\* what the code does: as C10_DowngradeFinal, an HTTP/1.0 response counting
\* as such only when no earlier response of the transaction was HTTP/1.1
C10_DowngradeAsCoded ==
    ResInKal /\ FinalResponse =>
        s.txn.con_want =
            IF \/ "close" \in hist.rp.conn
               \/ /\ "HTTP_MSGF_VER_11" \notin hist.res.pre.txn.rsp.flags
                  /\ "keep-alive" \notin hist.rp.conn
            THEN "SCL" ELSE "KAL"

\* a keep-alive transaction downgraded by "Connection: close"
C10_Witness ==
    /\ ResInKal
    /\ FinalResponse
    /\ "close" \in hist.rp.conn
    /\ s.txn.con_want = "SCL"

\* an HTTP/1.0 response without keep-alive that leaves the mode at KAL
C10_StaleVersion ==
    /\ ResInKal
    /\ FinalResponse
    /\ ~hist.rp.ver11
    /\ "keep-alive" \notin hist.rp.conn
    /\ s.txn.con_want = "KAL"


(***************************************************************************)
(* Header editing: a parsed request whose header block is walked by        *)
(* http_find_header2 and edited by http_header_add_tail2,                  *)
(* http_remove_header2, the header filters and the cookie pass.            *)
(***************************************************************************)
\* complete requests, two headers each, lines ended by CRLF or by LF
HeaderSamples ==
    { <<"G", "SP", "/", "SP", "H", "CR", "LF",
        "G", ":", "G", ",", "H", "CR", "LF",
        "H", ":", "G", "LF", "CR", "LF">>,
      <<"G", "SP", "/", "SP", "H", "LF",
        "G", ":", "G", "LF",
        "G", ":", "SP", "H", "CR", "LF", "LF">>,
      <<"G", "SP", "/", "SP", "H", "CR", "LF",
        "H", ":", "G", "CR", "LF",
        "G", ":", "H", ",", "SP", "G", "CR", "LF", "CR", "LF">> }

\* header names looked for, header lines added, replacement lines
HdrNames == {<<"G">>, <<"H">>}

HdrTexts == {<<"G", ":", "G">>, <<"H", ":", "G", ",", "G">>}

InitHeaders ==
    /\ \E t \in HeaderSamples :
          \E r \in {http_msg_analyzer(InitMsg("RQBEFORE", -2),
                                      hdr_idx_init(EmptyIdx), t, 0)} :
             /\ msg = r.m
             /\ idx = r.idx
             /\ buf = r.buf
             /\ stream = t
    /\ first = InitMsg("RQBEFORE", -2)
    /\ buf_p = 0
    /\ o = 0
    /\ ctx = NoFind
    /\ s = InitSession(DefaultProxy)
    /\ backend = DefaultProxy
    /\ hist = NoHist

\* ctx.idx = 0; http_find_header2(name, ..., &ctx)
FindFirst(name) ==
    /\ \E r \in {http_find_header2(name, buf, idx, NoCtx)} :
          ctx' = [c |-> r.ctx, at |-> IF r.found THEN "found" ELSE "none",
                  name |-> name]
    /\ UNCHANGED <<msg, idx, buf, buf_p, o, stream, first, svars>>

\* the next iteration of while (http_find_header2(name, ..., &ctx))
FindNext ==
    /\ ctx.at \in {"found", "removed"}
    /\ \E r \in {http_find_header2(ctx.name, buf, idx, ctx.c)} :
          ctx' = [ctx EXCEPT !.c = r.ctx,
                             !.at = IF r.found THEN "found" ELSE "none"]
    /\ UNCHANGED <<msg, idx, buf, buf_p, o, stream, first, svars>>

\* http_remove_header2 on the value that was just found
RemoveHeader ==
    /\ ctx.at = "found"
    /\ \E r \in {http_remove_header2(msg, idx, ctx.c, buf)} :
          /\ msg' = r.m
          /\ idx' = r.idx
          /\ buf' = r.buf
          /\ ctx' = [ctx EXCEPT !.c = r.ctx, !.at = "removed"]
          /\ hist' = [hist EXCEPT !.edit = Edited("remove", msg, idx, buf,
                                                  r.delta, r.entry)]
    /\ UNCHANGED <<buf_p, o, stream, first, s, backend>>

\* http_header_add_tail2, outside of any walk
AddTail(text) ==
    /\ \E r \in {http_header_add_tail2(msg, idx, buf, text)} :
          /\ msg' = r.m
          /\ idx' = r.idx
          /\ buf' = r.buf
          /\ hist' = [hist EXCEPT !.edit = Edited("add", msg, idx, buf,
                                                  r.delta, 0),
                                  !.refused = @ \/ (r.delta > 0 /\ r.ret < 0)]
    /\ ctx' = NoFind
    /\ UNCHANGED <<buf_p, o, stream, first, s, backend>>

\* the index entry of the header of rank <n>, 0 without such a header
RECURSIVE Rank(_, _, _)
Rank(i, k, n) ==
    IF k = 0 \/ n <= 1 THEN k ELSE Rank(i, i.v[k].next, n - 1)

\* one header filter applied to the request
FilterHeaders(act, text, matches) ==
    /\ \E r \in {apply_filter_to_req_headers(msg, idx, buf, act, text,
                                             matches)} :
          /\ msg' = r.m
          /\ idx' = r.idx
          /\ buf' = r.buf
          /\ hist' = [hist EXCEPT !.edit =
                Edited(act, msg, idx, buf, r.delta,
                       IF act = "ACT_REPLACE" /\ Cardinality(matches) = 1
                       THEN Rank(idx, hdr_idx_first_idx(idx),
                                 CHOOSE n \in matches : TRUE)
                       ELSE 0)]
    /\ ctx' = NoFind
    /\ UNCHANGED <<buf_p, o, stream, first, s, backend>>

\* the cookie pass over the request
CookiePass(matches) ==
    /\ \E r \in {manage_client_side_cookies(msg, idx, buf, matches)} :
          /\ msg' = r.m
          /\ idx' = r.idx
          /\ buf' = r.buf
          /\ hist' = [hist EXCEPT !.edit = Edited("cookies", msg, idx, buf,
                                                  r.delta, 0)]
    /\ ctx' = NoFind
    /\ UNCHANGED <<buf_p, o, stream, first, s, backend>>

Ranks == (SUBSET (1..(HdrIdxSize - 1))) \ {{}}

NextHeaders ==
    \/ \E name \in HdrNames : FindFirst(name)
    \/ FindNext
    \/ RemoveHeader
    \/ \E text \in HdrTexts : AddTail(text)
    \/ \E act \in {"ACT_REPLACE", "ACT_REMOVE"}, text \in HdrTexts,
          matches \in Ranks : FilterHeaders(act, text, matches)
    \/ \E matches \in Ranks : CookiePass(matches)

SpecHeaders == InitHeaders /\ [][NextHeaders]_vars

\* the header lines the index gives, from the sentinel along the next links
RECURSIVE WalkFrom(_, _, _)
WalkFrom(i, k, n) ==
    IF k = 0 \/ n = 0 THEN <<>>
    ELSE <<[len |-> i.v[k].len, cr |-> i.v[k].cr]>>
             \o WalkFrom(i, i.v[k].next, n - 1)

Walk == WalkFrom(idx, hdr_idx_first_idx(idx), HdrIdxSize)

\* the offset of the first LF of <b> at or after <p>, Len(b) without one
RECURSIVE FindLF(_, _)
FindLF(b, p) == IF p >= Len(b) \/ At(b, p) = "LF" THEN p ELSE FindLF(b, p + 1)

LineAt(b, p) ==
    LET e  == FindLF(b, p)
        cr == IF e > p /\ At(b, e - 1) = "CR" THEN 1 ELSE 0
    IN  [len |-> e - p - cr, cr |-> cr, nxt |-> e + 1]

\* the header lines in the buffer from offset <p> to the empty line
RECURSIVE LinesFrom(_, _)
LinesFrom(b, p) ==
    LET l == LineAt(b, p)
    IN  IF p >= Len(b) \/ l.len = 0 THEN <<>>
        ELSE <<[len |-> l.len, cr |-> l.cr]>> \o LinesFrom(b, l.nxt)

Lines == LinesFrom(buf, hdr_idx_first_pos(idx))

\* eoh is the offset of the CRLF or LF that ends the buffered header block
EohFinal ==
    SubSeq(buf, msg.eoh + 1, Len(buf)) \in {<<"CR", "LF">>, <<"LF">>}

Edit == hist.edit

\* C12: after any sequence of header additions and removals, following the
\* index from the sentinel along the next links visits exactly the header
\* lines present in the buffer, in wire order.
C12_WireOrder == Walk = Lines

\* C12, for the sequences in which the index never was full when a header
\* was added
C12_WireOrderWithRoom == ~hist.refused => Walk = Lines

\* C12: a header has been added after others were removed
C12_Witness ==
    /\ Edit.op = "add" /\ Edit.delta > 0
    /\ ~hist.refused
    /\ idx.used = HdrIdxSize
    /\ Walk = Lines
    /\ Len(Lines) = HdrIdxSize - 1
    /\ stream # buf

\* C13: after every header insertion, removal or in-place edit, eoh and the
\* length of the index entry edited in place have changed by exactly the
\* displacement the buffer primitive returned; eoh designates the final
\* CRLF of the header block and no entry has a negative length.
C13_Displacement ==
    Edit.ran =>
       /\ msg.eoh = Edit.eoh0 + Edit.delta
       /\ Len(buf) = Edit.size0 + Edit.delta
       /\ Edit.entry # 0 => idx.v[Edit.entry].len = Edit.len0 + Edit.delta
       /\ EohFinal
       /\ \A k \in 0..(HdrIdxSize - 1) : idx.v[k].len >= 0

\* C13: one value of a header with several values has been removed
C13_Witness ==
    /\ Edit.ran /\ Edit.op = "remove"
    /\ Edit.entry # 0 /\ Edit.delta < 0
    /\ idx.v[Edit.entry].len > 0


(***************************************************************************)
(* The request buffer as a ring: http_wait_for_request and the area        *)
(* protected for rewriting.  The storage has RingSize bytes, the last      *)
(* MaxRewrite of which are reserved; buf_p is the offset of buf->p in it.  *)
(***************************************************************************)
\* b_ptr: the storage offset of the byte at <ofs> from buf->p
b_ptr(bp, ofs) ==
    IF ofs > 0 /\ bp + ofs >= RingSize THEN bp + ofs - RingSize ELSE bp + ofs

bi_end(bp, b) == b_ptr(bp, Len(b))

\* channel_full, nothing being scheduled for forwarding
channel_full(b, out) ==
    LET rem == RingSize - out - Len(b)
    IN  rem = 0 \/ rem - MaxRewrite + out <= 0

\* buffer_full(buf, global.tune.maxrewrite)
buffer_full(b, out) ==
    LET rem == RingSize - out - Len(b)
    IN  rem = 0 \/ rem - MaxRewrite <= 0

\* bi_avail: what a read may add to the input, nothing being scheduled for
\* forwarding
bi_avail(b, out) ==
    LET rem  == RingSize - out - Len(b)
        rem2 == rem - MaxRewrite + out
        r    == IF rem2 < rem THEN rem2 ELSE rem
    IN  IF r > 0 THEN r ELSE 0

\* the input wraps after msg->next, or ends in the protected area
MarginAffected(m, b, bp) ==
    \/ bi_end(bp, b) < b_ptr(bp, m.next)
    \/ bi_end(bp, b) > RingSize - MaxRewrite

WriteFailed == {"CF_SHUTW", "CF_SHUTW_NOW", "CF_WRITE_ERROR",
                "CF_WRITE_TIMEOUT"}

\* failed_keep_alive
FailedKeepAlive(x) ==
    [x EXCEPT !.txn.status = 0, !.txn.req.msg_state = "RQBEFORE",
              !.req.analysers = {},
              !.rep.flags = @ \ {"CF_EXPECT_MORE"}]

\* return_bad_req
BadReq(x) ==
    [x EXCEPT !.txn.status = 400, !.txn.req.msg_state = "ERROR",
              !.req.analysers = {}]

\* the pending output is not looked at
OutputIgnored(out) == TRUE

\* if (req->buf->o): some data has still not left the buffer
OutputLeft(out) == out = 0

\* http_wait_for_request down to the decision on the parsed bytes: complete
\* request, bad request, or need more data.  Returns the session, the
\* message, the index, the input, the offset of buf->p and the record of
\* the call.
WaitParse(x, m, i, b, out, bp) ==
    LET nf   == "TX_NOT_FIRST" \in x.txn.flags
        aff  == MarginAffected(m, b, bp)
        tst  == nf /\ (channel_full(b, out) \/ aff)
        p2   == IF tst /\ aff THEN 0 ELSE bp
        rec(v, pa, re, q) ==
            [ran |-> TRUE, decision |-> v, parsed |-> pa, realigned |-> re,
             affected |-> aff, nf |-> nf, o |-> out, p |-> q,
             i |-> Len(b), next0 |-> m.next, state0 |-> m.msg_state,
             before |-> "none"]
        ret(v, y, re, q) ==
            [x |-> y, m |-> IF v = "failed_keep_alive"
                            THEN [m EXCEPT !.msg_state = "RQBEFORE"] ELSE m,
             idx |-> i, buf |-> b, p |-> q, w |-> rec(v, FALSE, re, q)]
    IN  IF Len(b) + out = 0 \/ ~InHeaders(m.msg_state)
        THEN ret(IF m.msg_state = "BODY" THEN "complete"
                 ELSE IF m.msg_state = "ERROR" THEN "bad_req"
                 ELSE "more", x, FALSE, bp)
        ELSE IF tst /\ ~OutputLeft(out)
        THEN IF x.req.flags \cap WriteFailed # {}
             THEN ret("failed_keep_alive", FailedKeepAlive(x), FALSE, bp)
             ELSE ret("wait",
                      [x EXCEPT !.req.flags = (@ \ {"CF_AUTO_CONNECT"})
                                                  \cup {"CF_READ_DONTWAIT"}],
                      FALSE, bp)
        ELSE IF nf /\ x.rep.o > 0
        THEN IF x.rep.flags \cap WriteFailed # {}
             THEN ret("failed_keep_alive", FailedKeepAlive(x), p2 # bp, p2)
             ELSE ret("wait",
                      [x EXCEPT !.req.flags = @ \ {"CF_AUTO_CONNECT"},
                                !.rep.flags = @ \ {"CF_EXPECT_MORE"},
                                !.rep.analysers = @ \cup {"AN_REQ_WAIT_HTTP"}],
                      p2 # bp, p2)
        ELSE The({ LET st  == r.m.msg_state
                       bad == st = "ERROR"
                                \/ (InHeaders(st) /\ buffer_full(r.buf, out))
                   IN  [x |-> IF bad THEN BadReq(x) ELSE x,
                        m |-> IF bad THEN [r.m EXCEPT !.msg_state = "ERROR"]
                              ELSE r.m,
                        idx |-> r.idx, buf |-> r.buf,
                        p |-> b_ptr(p2, r.del),
                        w |-> rec(IF bad THEN "bad_req"
                                  ELSE IF st = "BODY" THEN "complete"
                                  ELSE "more",
                                  m.next < Len(b), p2 # bp, p2)]
                   : r \in {ParseMore(m, i, b, out)} })

\* the request a client repeats on its connection
ClientRequests ==
    { <<"G", "SP", "/", "SP", "H", "LF", "LF">>,
      <<"LF", "G", "SP", "/", "SP", "H", "LF", "LF">> }

RECURSIVE Repeat(_, _)
Repeat(t, n) == IF n = 0 THEN <<>> ELSE t \o Repeat(t, n - 1)

InitMargin ==
    /\ msg = InitMsg("RQBEFORE", -2)
    /\ first = InitMsg("RQBEFORE", -2)
    /\ idx = hdr_idx_init(EmptyIdx)
    /\ buf = <<>>
    /\ buf_p = 0
    /\ o = 0
    /\ stream = <<>>
    /\ ctx = NoFind
    /\ s = InitSession(DefaultProxy)
    /\ backend = DefaultProxy
    /\ hist = NoHist

\* the analyser is called on the session <x>, the input <b>, <out> bytes
\* of pending output and buf->p at <bp>; it has left the channel once the
\* request is complete
Analyse(x, m, b, out, bp) ==
    \E r \in {IF m.msg_state = "BODY"
              THEN [x |-> x, m |-> m, idx |-> idx, buf |-> b, p |-> bp,
                    w |-> NoWait]
              ELSE WaitParse(x, m, idx, b, out, bp)} :
       /\ s' = r.x
       /\ msg' = r.m
       /\ idx' = r.idx
       /\ buf' = r.buf
       /\ buf_p' = r.p
       /\ hist' = [hist EXCEPT
                       !.wait = [r.w EXCEPT !.before = hist.wait.decision]]

\* a read delivers the next <n> bytes of the client, then the analyser runs
RecvReq(n) ==
    /\ s.req.analysers # {}
    /\ n <= bi_avail(buf, o)
    /\ \E t \in ClientRequests :
          /\ Len(stream) + n <= MaxReqs * Len(t)
          /\ \E d \in {SubSeq(Repeat(t, MaxReqs), 1, Len(stream) + n)} :
                /\ IsPrefix(stream, d)
                /\ stream' = d
                /\ Analyse(s, msg,
                           buf \o SubSeq(d, Len(stream) + 1, Len(d)), o,
                           buf_p)
    /\ UNCHANGED <<o, first, ctx, backend>>

\* the pending output of the request buffer leaves, the analyser runs
FlushReq ==
    /\ o > 0
    /\ s.req.analysers # {}
    /\ o' = 0
    /\ Analyse(s, msg, buf, 0, buf_p)
    /\ UNCHANGED <<stream, first, ctx, backend>>

\* the pending output of the response buffer leaves, the analyser runs
FlushRep ==
    /\ s.rep.o > 0
    /\ s.req.analysers # {}
    /\ Analyse([s EXCEPT !.rep.o = 0], msg, buf, o, buf_p)
    /\ UNCHANGED <<o, stream, first, ctx, backend>>

\* the server side reports a write error, the analyser runs
WriteError ==
    /\ o > 0
    /\ s.req.analysers # {}
    /\ "CF_WRITE_ERROR" \notin s.req.flags
    /\ Analyse([s EXCEPT !.req.flags = @ \cup {"CF_WRITE_ERROR"}], msg, buf,
               o, buf_p)
    /\ UNCHANGED <<o, stream, first, ctx, backend>>

\* the complete request is forwarded (b_adv), <left> bytes of it and <rsp>
\* bytes of the response are still pending when the transaction ends
\* (http_end_txn_clean_session); the analyser then runs on what follows
NextRequest(left, rsp) ==
    /\ msg.msg_state = "BODY"
    /\ s.req.analysers # {}
    /\ left <= msg.next
    /\ o' = left
    /\ Analyse([http_end_txn_clean_session(s) EXCEPT !.rep.o = rsp],
               InitMsg("RQBEFORE", -2),
               SubSeq(buf, msg.next + 1, Len(buf)), left,
               b_ptr(buf_p, msg.next))
    /\ UNCHANGED <<stream, first, ctx, backend>>

NextMargin ==
    \/ \E n \in 1..(RingSize - MaxRewrite) : RecvReq(n)
    \/ FlushReq
    \/ FlushRep
    \/ WriteError
    \/ \E left \in 0..(RingSize - MaxRewrite), rsp \in 0..1 :
          NextRequest(left, rsp)

SpecMargin == InitMargin /\ [][NextMargin]_vars

Wait == hist.wait

\* the bytes not yet parsed neither wrap nor end in the protected area
Clear == Wait.p + Wait.i <= RingSize - MaxRewrite

\* no byte of the message was parsed when the analyser was called
NewMessage == Wait.state0 \in {"RQBEFORE", "RQBEFORE_CR"}

\* C14: the request analyser never starts to parse a new message while the
\* bytes not yet parsed wrap or end in the area reserved for rewriting;
\* when they do and output is pending it waits (or gives the connection
\* up when that output cannot leave), and it only realigns the buffer when
\* o = 0.
C14_Margin ==
    Wait.ran =>
       /\ NewMessage /\ Wait.parsed => Clear
       /\ NewMessage /\ Wait.affected /\ Wait.o > 0 =>
             ~Wait.parsed /\ Wait.decision \in {"wait", "failed_keep_alive"}
       /\ Wait.realigned => Wait.o = 0 /\ Wait.p = 0

\* C14, for every call of the parser on a request that is not the first
\* one of its connection, those that resume a message included
C14_MarginNotFirst ==
    Wait.ran /\ Wait.nf =>
       /\ Wait.parsed => Clear
       /\ Wait.affected /\ Wait.o > 0 =>
             ~Wait.parsed /\ Wait.decision \in {"wait", "failed_keep_alive"}

\* C14, for every call of the parser
C14_MarginAlways == Wait.ran /\ Wait.parsed => Clear

\* C14: the analyser waited for the output to leave, then realigned the
\* buffer and parsed
C14_Witness ==
    /\ Wait.ran /\ Wait.nf /\ NewMessage /\ Wait.before = "wait"
    /\ Wait.parsed /\ Wait.realigned
    /\ Wait.affected /\ Wait.o = 0 /\ Clear


(***************************************************************************)
(* Forwarding of a chunked request body: http_request_forward_body on the  *)
(* bytes of a body that arrive in pieces.                                  *)
(***************************************************************************)
\* channel_forward: <bytes> are scheduled for forwarding; what the buffer
\* holds of them leaves the input at once, the rest is left in to_forward
channel_forward(b, tf, bytes) ==
    LET k == IF WideLe(bytes, Wide(Len(b))) THEN bytes.lo ELSE Len(b)
    IN  [buf |-> SubSeq(b, k + 1, Len(b)),
         tf |-> WideAdd(tf, WideSub(bytes, Wide(k))),
         taken |-> SubSeq(b, 1, k)]

\* the message enters <st>
Enter(a, st) ==
    [a EXCEPT !.m.msg_state = st, !.h.trace = Append(@, st)]

\* the chunk's end is not looked for: the next size is expected at once
AfterDataSize(flags) ==
    IF "HTTP_MSGF_TE_CHNK" \in flags THEN "CHUNK_SIZE" ELSE "DONE"

\* "nothing left to forward": the state that follows DATA
AfterData(flags) ==
    IF "HTTP_MSGF_TE_CHNK" \in flags THEN "CHUNK_CRLF" ELSE "DONE"

\* return_bad_req of http_request_forward_body
ForwardBadReq(a) ==
    [a EXCEPT !.m.msg_state = "ERROR", !.decision = "bad_req"]

\* the loop of http_request_forward_body.  <a> holds the message, the
\* input, to_forward and the history; <decision> is set when the function
\* returns.
RECURSIVE ForwardLoop(_)
ForwardLoop(a) ==
    LET bytes == a.m.sov - a.m.sol
        pend  == a.m.chunk_len # Wide(0) \/ bytes # 0
        f     == channel_forward(a.buf, a.tf,
                                 WideAdd(a.m.chunk_len, Wide(bytes)))
        a1    == IF ~pend THEN a
                 ELSE [a EXCEPT !.m.sol = a.m.sov, !.m.next = @ - bytes,
                                !.m.chunk_len = Wide(0),
                                !.buf = f.buf, !.tf = f.tf,
                                !.h.pay = @ \o SubSeq(f.taken, bytes + 1,
                                                      Len(f.taken))]
        st    == a.m.msg_state
    IN  IF st = "DATA"
        THEN IF a1.tf # Wide(0) THEN [a1 EXCEPT !.decision = "missing_data"]
             ELSE ForwardLoop(Enter(a1, AfterData(a1.m.flags)))
        ELSE IF st = "CHUNK_SIZE"
        THEN The({ IF r.ret = 0 THEN [a1 EXCEPT !.decision = "missing_data"]
                   ELSE IF r.ret < 0 THEN ForwardBadReq([a1 EXCEPT !.m = r.m])
                   ELSE ForwardLoop(
                          [a1 EXCEPT !.m = r.m,
                                     !.h.trace = Append(@, r.m.msg_state),
                                     !.h.parsed = Append(@, r.chunk)])
                   : r \in {http_parse_chunk_size(a1.m, a1.buf)} })
        ELSE IF st = "CHUNK_CRLF"
        THEN The({ LET a2 == [a1 EXCEPT !.h.crlf =
                                 [ran |-> TRUE, ret |-> r.ret, pre |-> a1.m,
                                  post |-> r.m, input |-> a1.buf]]
                   IN  IF r.ret = 0 THEN [a2 EXCEPT !.decision = "missing_data"]
                       ELSE IF r.ret < 0
                       THEN ForwardBadReq([a2 EXCEPT !.m = r.m])
                       ELSE ForwardLoop(
                              [a2 EXCEPT !.m = r.m,
                                         !.h.trace = Append(@, "CHUNK_SIZE")])
                   : r \in {http_skip_chunk_crlf(a1.m, a1.buf)} })
        ELSE IF st = "TRAILERS"
        THEN The({ IF r.ret = 0
                   THEN [a1 EXCEPT !.m = r.m, !.decision = "missing_data"]
                   ELSE IF r.ret < 0 THEN ForwardBadReq([a1 EXCEPT !.m = r.m])
                   ELSE ForwardLoop([a1 EXCEPT !.m = r.m,
                                               !.h.trace = Append(@, "DONE")])
                   : r \in {http_forward_trailers(a1.m, a1.buf)} })
        ELSE [a1 EXCEPT !.decision = "done"]

\* the states from HTTP_MSG_BODY on
FromBody == {"BODY", "100_SENT", "CHUNK_SIZE", "DATA", "CHUNK_CRLF",
             "TRAILERS", "DONE", "CLOSING", "CLOSED", "TUNNEL"}

\* http_request_forward_body on the bytes of the body, for a request whose
\* output side is sound
forward_body_chunks(m, b, tf, h) ==
    LET a == [m |-> m, buf |-> b, tf |-> tf, h |-> h, decision |-> "none"]
    IN  IF m.msg_state \notin FromBody THEN [a EXCEPT !.decision = "skip"]
        ELSE IF m.msg_state = "BODY"
        THEN ForwardLoop(Enter([a EXCEPT !.m.next = m.sov],
                               IF "HTTP_MSGF_TE_CHNK" \in m.flags
                               THEN "CHUNK_SIZE" ELSE "DATA"))
        ELSE ForwardLoop(a)

\* http_compression_buffer_end: what leaves for one chunk of <data>, the
\* last one of a body that came without the chunked coding
EmitChunk(data, last) ==
    http_emit_chunk_size(Wide(Len(data)), 0) \o data \o <<"CR", "LF">>
        \o (IF last THEN <<"0", "CR", "LF", "CR", "LF">> ELSE <<>>)

RECURSIVE EmitBody(_)
EmitBody(datas) ==
    IF Len(datas) = 1 THEN EmitChunk(datas[1], TRUE)
    ELSE EmitChunk(datas[1], FALSE) \o EmitBody(Tail(datas))

RECURSIVE Concat(_)
Concat(ss) == IF ss = <<>> THEN <<>> ELSE ss[1] \o Concat(Tail(ss))

\* chunk payloads: some of their bytes look like framing
ChunkData == UNION {[1..n -> {"x", "LF", "0"}] : n \in 1..MaxChunk}

\* bodies of one chunk and of two
ChunkLists == {<<d>> : d \in ChunkData}
                  \cup {<<d, e>> : d \in ChunkData, e \in ChunkData}

\* bodies the core emitted
EmittedBodies ==
    { [NoChunks EXCEPT !.kind = "emitted", !.wire = EmitBody(ds),
                       !.sizes = [k \in 1..Len(ds) |-> Wide(Len(ds[k]))],
                       !.payload = Concat(ds)] : ds \in ChunkLists }

\* size lines the core emits for large chunks, and the first byte of data
EmittedSizes ==
    { [NoChunks EXCEPT !.kind = "emitted size",
                       !.wire = http_emit_chunk_size(n, 0) \o <<"x">>,
                       !.sizes = <<n>>, !.payload = <<"x">>]
      : n \in { [hi |-> 255, lo |-> 65535], [hi |-> 16, lo |-> 0],
                [hi |-> 171, lo |-> 52719], [hi |-> 1, lo |-> 0],
                [hi |-> 0, lo |-> 4096] } }

\* bodies as clients write them: LF alone, extensions, spaces, leading
\* zeros, lower case, a trailer
ClientBodies ==
    { [NoChunks EXCEPT !.kind = "chunked", !.wire = w[1], !.sizes = w[2],
                       !.payload = w[3]]
      : w \in { << <<"1", "LF", "x", "LF", "0", "LF", "LF">>,
                   <<Wide(1)>>, <<"x">> >>,
                << <<"2", ";", "x", "CR", "LF", "x", "CR", "CR", "LF",
                     "0", "0", "SP", "CR", "LF", "CR", "LF">>,
                   <<Wide(2)>>, <<"x", "CR">> >>,
                << <<"0", "1", "SP", "CR", "LF", "LF", "LF",
                     "1", "LF", "0", "CR", "LF", "0", ";", "CR", "LF", "LF">>,
                   <<Wide(1), Wide(1)>>, <<"LF", "0">> >>,
                << <<"a", "CR", "LF", "x", "x", "x", "x", "x", "x", "x",
                     "x", "x", "x", "LF", "0", "CR", "LF", "CR", "LF">>,
                   <<Wide(10)>>,
                   <<"x", "x", "x", "x", "x", "x", "x", "x", "x", "x">> >> } }

TrailerBodies ==
    { [NoChunks EXCEPT !.kind = "trailer", !.wire = w]
      : w \in { <<"1", "CR", "LF", "x", "CR", "LF", "0", "CR", "LF",
                  "x", ":", "x", "CR", "LF", "CR", "LF">>,
                <<"0", "LF", "x", "LF", "CR", "LF">> } }

\* size lines around 2^31 and 2^32
SizeLines ==
    { [NoChunks EXCEPT !.kind = "size", !.wire = w \o <<"CR", "LF", "x">>]
      : w \in { <<"7", "f", "f", "f", "f", "f", "f", "f">>,
                <<"7", "F", "F", "F", "F", "F", "F", "F">>,
                <<"8", "0", "0", "0", "0", "0", "0", "0">>,
                <<"f", "f", "f", "f", "f", "f", "f", "f">>,
                <<"1", "0", "0", "0", "0", "0", "0", "0", "0">>,
                <<"1", "0", "0", "0", "0", "0", "0", "0", "1">>,
                <<"0", "0", "0", "0", "0", "0", "0", "0", "0", "1">>,
                <<"0", "8", "0", "0", "0", "0", "0", "0">>,
                <<"0", "8", "0", "0", "0", "0", "0", "0", "0">>,
                <<"0", "7", "f", "f", "f", "f", "f", "f", "f">>,
                <<"f", "0", "0", "0", "0", "0", "0", "1", "0">> } }

\* bodies that break the coding
BadBodies ==
    { [NoChunks EXCEPT !.kind = "bad", !.wire = w]
      : w \in { <<"1", "CR", "LF", "x", "x", "CR", "LF">>,
                <<"1", "CR", "LF", "x", "CR", "x", "LF">>,
                <<"1", "LF", "x", "CR", "CR", "LF">>,
                <<"1", "LF", "x", "SP", "LF">>,
                <<"CR", "LF", "1", "CR", "LF">>,
                <<"g", "CR", "LF">>,
                <<"0", "LF", "x", "LF", "x", "CR", "CR", "LF">>,
                <<"1", "CR", "x", "LF">>,
                <<"1", "x", "CR", "LF">> } }

Bodies ==
    EmittedBodies \cup EmittedSizes \cup ClientBodies \cup TrailerBodies
        \cup SizeLines \cup BadBodies

\* the head of the request, parsed; its body is chunked
ChunkedHead ==
    http_msg_analyzer(InitMsg("RQBEFORE", -2), hdr_idx_init(EmptyIdx),
                      <<"G", "SP", "/", "SP", "H", "LF", "LF">>, 0)

ChunkFields ==
    [chunk_len |-> Wide(0), body_len |-> Wide(0),
     flags |-> {"HTTP_MSGF_TE_CHNK"}]

InitChunks ==
    /\ msg = ChunkedHead.m @@ ChunkFields
    /\ first = ChunkedHead.m @@ ChunkFields
    /\ idx = ChunkedHead.idx
    /\ buf = ChunkedHead.buf
    /\ buf_p = 0
    /\ o = 0
    /\ stream = <<>>
    /\ ctx = NoFind
    /\ s = [InitSession(DefaultProxy) EXCEPT
               !.req = [flags |-> {}, analysers |-> {"AN_REQ_HTTP_XFER_BODY"},
                        o |-> 0, to_forward |-> Wide(0)]]
    /\ backend = DefaultProxy
    /\ \E c \in Bodies : hist = [NoHist EXCEPT !.chunks = c]

Chunks == hist.chunks

\* the analyser runs on the input <b>, <tf> bytes being still to forward
ForwardBody(b, tf) ==
    \E r \in {forward_body_chunks(msg, b, tf, Chunks)} :
       /\ msg' = r.m
       /\ buf' = r.buf
       /\ o' = o + (Len(b) - Len(r.buf))
       /\ hist' = [hist EXCEPT !.chunks = r.h]
       /\ s' = [s EXCEPT !.req.to_forward = r.tf,
                         !.req.analysers = IF r.decision = "bad_req"
                                           THEN {} ELSE @,
                         !.txn.status = IF r.decision = "bad_req"
                                        THEN 400 ELSE @]

\* <n> more bytes of the body arrive: those that were scheduled leave at
\* once, the others wait in the input; then the analyser runs
RecvBody(n) ==
    /\ s.req.analysers # {}
    /\ Len(stream) + n <= Len(Chunks.wire)
    /\ LET d  == SubSeq(Chunks.wire, Len(stream) + 1, Len(stream) + n)
           tf == s.req.to_forward
           k  == IF WideLe(tf, Wide(n)) THEN tf.lo ELSE n
       IN  /\ stream' = stream \o d
           /\ \E r \in {forward_body_chunks(
                            msg, buf \o SubSeq(d, k + 1, n),
                            WideSub(tf, Wide(k)),
                            [Chunks EXCEPT !.pay = @ \o SubSeq(d, 1, k)])} :
                 /\ msg' = r.m
                 /\ buf' = r.buf
                 /\ o' = o + k + (Len(buf) + n - k - Len(r.buf))
                 /\ hist' = [hist EXCEPT !.chunks = r.h]
                 /\ s' = [s EXCEPT !.req.to_forward = r.tf,
                                   !.req.analysers =
                                       IF r.decision = "bad_req" THEN {} ELSE @,
                                   !.txn.status =
                                       IF r.decision = "bad_req" THEN 400
                                       ELSE @]
    /\ UNCHANGED <<idx, buf_p, first, ctx, backend>>

\* the analyser is woken up without new input
WakeBody ==
    /\ s.req.analysers # {}
    /\ msg.msg_state # "DONE"
    /\ ForwardBody(buf, s.req.to_forward)
    /\ UNCHANGED <<idx, buf_p, stream, first, ctx, backend>>

NextChunks ==
    \/ \E n \in 1..MaxPiece : RecvBody(n)
    \/ WakeBody

SpecChunks == InitChunks /\ [][NextChunks]_vars


(***************************************************************************)
(* Observers of the forwarding of a chunked body                           *)
(***************************************************************************)
\* the states a body of <k> chunks, a zero chunk and an empty trailer
\* drives the message through
RECURSIVE ChunkStates(_)
ChunkStates(k) ==
    IF k = 0 THEN <<"CHUNK_SIZE", "TRAILERS", "DONE">>
    ELSE <<"CHUNK_SIZE", "DATA", "CHUNK_CRLF">> \o ChunkStates(k - 1)

RECURSIVE WideSum(_)
WideSum(ws) == IF ws = <<>> THEN Wide(0)
               ELSE WideAdd(ws[1], WideSum(Tail(ws)))

AllReceived == stream = Chunks.wire

\* C17: a chunked body of chunks s1..sk (all > 0), a zero chunk and an
\* empty trailer drives the message through CHUNK_SIZE, DATA, CHUNK_CRLF for
\* each chunk, then CHUNK_SIZE, TRAILERS, DONE; once it is all received the
\* message is in DONE, body_len is s1 + ... + sk and the chunks' data are
\* what was forwarded as data.
C17_ChunkStates ==
    Chunks.kind \in {"chunked", "emitted"} =>
       /\ IsPrefix(Chunks.trace, ChunkStates(Len(Chunks.sizes)))
       /\ Chunks.trace # <<>> => msg.msg_state = Chunks.trace[Len(Chunks.trace)]
       /\ AllReceived =>
             /\ msg.msg_state = "DONE"
             /\ Chunks.trace = ChunkStates(Len(Chunks.sizes))
             /\ msg.body_len = WideSum(Chunks.sizes)
             /\ Chunks.pay = Chunks.payload
             /\ buf = <<>> /\ s.req.to_forward = Wide(0)

C17_Witness ==
    /\ Chunks.kind = "chunked" /\ Len(Chunks.sizes) = 2
    /\ msg.msg_state = "DONE"
    /\ Chunks.trace = ChunkStates(2)
    /\ msg.body_len = Wide(2)

\* the value of the hexadecimal digits a size line starts with, of any size
RECURSIVE DigitsValue(_, _, _)
DigitsValue(w, k, acc) ==
    IF k > Len(w) \/ hex2i(w[k]) < 0 THEN acc
    ELSE DigitsValue(w, k + 1,
                     [hi |-> acc.hi * 16 + (acc.lo * 16 + hex2i(w[k])) \div Half,
                      lo |-> (acc.lo * 16 + hex2i(w[k])) % Half])

SizeValue == DigitsValue(Chunks.wire, 1, Wide(0))

TooLarge == WideLe(TwoGB, SizeValue)

\* every digit of the size line is received: CR, LF and one byte of data
\* follow them
DigitsReceived == Len(stream) >= Len(Chunks.wire) - 3

\* C18: a chunk size of 2^31 or more is refused as soon as its digits are
\* received, the message being left in ERROR with nothing stored in
\* chunk_len; a size below 2^31 is stored as it is written, however many
\* digits it has; no value stored in chunk_len is wrapped or truncated.
C18_Refuses ==
    Chunks.kind = "size" =>
       /\ \A k \in 1..Len(Chunks.parsed) :
             Chunks.parsed[k] = SizeValue /\ ~WideLe(TwoGB, Chunks.parsed[k])
       /\ TooLarge => Chunks.parsed = <<>> /\ msg.chunk_len = Wide(0)
       /\ TooLarge /\ DigitsReceived =>
             /\ msg.msg_state = "ERROR"
             /\ s.req.analysers = {} /\ s.txn.status = 400
       /\ ~TooLarge => msg.msg_state # "ERROR"
       /\ ~TooLarge /\ AllReceived =>
             /\ Chunks.parsed = <<SizeValue>>
             /\ msg.msg_state = IF SizeValue = Wide(1) THEN "CHUNK_CRLF"
                                ELSE "DATA"
             /\ msg.body_len = SizeValue
             /\ s.req.to_forward = WideSub(SizeValue, Wide(1))

C18_Witness ==
    /\ Chunks.kind = "size" /\ DigitsReceived
    /\ SizeValue = [hi |-> 65536, lo |-> 1]
    /\ msg.msg_state = "ERROR" /\ Chunks.parsed = <<>>

Crlf == Chunks.crlf

\* C19: http_skip_chunk_crlf accepts LF and CR LF, and nothing else; it then
\* leaves the message in CHUNK_SIZE with these one or two bytes to forward.
\* Any other byte is an error.  With no byte, or CR alone, it returns 0 and
\* the message is as it was.
C19_SkipCrlf ==
    Crlf.ran =>
       LET b     == Crlf.input
           lf    == Len(b) >= 1 /\ b[1] = "LF"
           crlf  == Len(b) >= 2 /\ b[1] = "CR" /\ b[2] = "LF"
           short == b = <<>> \/ b = <<"CR">>
       IN  /\ Crlf.pre.msg_state = "CHUNK_CRLF"
           /\ Crlf.ret = 1 <=> lf \/ crlf
           /\ Crlf.ret = 1 =>
                 /\ Crlf.post.msg_state = "CHUNK_SIZE"
                 /\ Crlf.post.sol = 0
                 /\ Crlf.post.sov = IF lf THEN 1 ELSE 2
                 /\ Crlf.post.next = Crlf.post.sov
           /\ Crlf.ret = 0 <=> short
           /\ Crlf.ret = 0 => Crlf.post = Crlf.pre
           /\ Crlf.ret = -1 <=> ~short /\ ~lf /\ ~crlf
           /\ Crlf.ret = -1 /\ Chunks.trace[Len(Chunks.trace)] = "CHUNK_CRLF"
                 => msg.msg_state = "ERROR"
           /\ Crlf.ret \in {-1, 0, 1}

C19_Witness ==
    /\ Crlf.ran /\ Crlf.ret = 0 /\ Crlf.input = <<"CR">>
    /\ msg.msg_state = "CHUNK_CRLF" /\ msg = Crlf.pre
    /\ buf = <<"CR">>

\* C20: the bytes the core emits for chunks of sizes s1..sk, each below
\* 16 MiB, decode with http_parse_chunk_size and the forwarding loop to
\* these sizes then the zero chunk, and to the chunks' data one after the
\* other; the message never is in ERROR.
C20_EmitDecodes ==
    Chunks.kind \in {"emitted", "emitted size"} =>
       /\ msg.msg_state # "ERROR"
       /\ IsPrefix(Chunks.parsed, Chunks.sizes \o <<Wide(0)>>)
       /\ IsPrefix(Chunks.pay, Chunks.payload)
       /\ Chunks.kind = "emitted size" /\ Len(stream) >= 8
             => Chunks.parsed = Chunks.sizes /\ msg.msg_state = "DATA"
       /\ Chunks.kind = "emitted" /\ AllReceived
             => /\ Chunks.parsed = Chunks.sizes \o <<Wide(0)>>
                /\ Chunks.pay = Chunks.payload
                /\ msg.msg_state = "DONE"

C20_Witness ==
    /\ Chunks.kind = "emitted" /\ AllReceived
    /\ Len(Chunks.sizes) = 2 /\ Chunks.payload = <<"0", "LF", "LF", "x">>
    /\ Chunks.pay = Chunks.payload
    /\ msg.msg_state = "DONE"


(***************************************************************************)
(* Compression of a response body: http_response_forward_body and the      *)
(* buffers of compression.c, with the identity algorithm.  A buffer is     *)
(* [i, o]: its input bytes and its pending output bytes.                   *)
(***************************************************************************)
b_adv(bf, n) ==
    [i |-> SubSeq(bf.i, n + 1, Len(bf.i)), o |-> bf.o \o SubSeq(bf.i, 1, n)]

buffer_len(bf) == Len(bf.i) + Len(bf.o)

Min(x, y) == IF x <= y THEN x ELSE y

\* the amount of data the algorithm consumed is returned
AddDataConsumed(consumed) == consumed

\* "return 0" of http_compression_buffer_add_data
AddDataRet(consumed) == 0

\* http_compression_buffer_init; returns [ret, m, inb, out]
http_compression_buffer_init(m, inb) ==
    IF TuneBufSize - buffer_len(inb) < 40
    THEN [ret |-> -1, m |-> m, inb |-> inb, out |-> [i |-> <<>>, o |-> <<>>]]
    ELSE [ret |-> 0,
          m |-> [m EXCEPT !.next = 0, !.sov = 0, !.sol = 0],
          inb |-> b_adv(inb, m.next),
          out |-> [i |-> http_emit_chunk_size(Wide(0), 0),
                   o |-> b_adv(inb, m.next).o]]

\* identity_add_data
identity_add_data(in_data, out_len) ==
    IF out_len < Len(in_data) THEN [ret |-> -1, data |-> <<>>]
    ELSE [ret |-> Len(in_data), data |-> in_data]

\* http_compression_buffer_add_data; returns [ret, m, inb, out].  The input
\* does not wrap here, so add_data is called once.
http_compression_buffer_add_data(m, inb, out) ==
    LET in1 == b_adv(inb, m.next)
        len == Min(TuneBufSize - buffer_len(out),
                   IF WideLe(Wide(Len(in1.i)), m.chunk_len) THEN Len(in1.i)
                   ELSE m.chunk_len.lo)
        r   == identity_add_data(SubSeq(in1.i, 1, len),
                                 TuneBufSize - buffer_len(out))
    IN  IF r.ret < 0
        THEN [ret |-> -1, inb |-> in1, out |-> out,
              m |-> [m EXCEPT !.next = 0, !.sov = 0, !.sol = 0]]
        ELSE [ret |-> AddDataRet(r.ret),
              inb |-> [i |-> SubSeq(in1.i, len + 1, Len(in1.i)),
                       o |-> in1.o \o SubSeq(in1.i, 1, len)],
              out |-> [out EXCEPT !.i = @ \o r.data],
              m |-> [m EXCEPT !.next = 0, !.sov = 0, !.sol = 0,
                              !.chunk_len = WideSub(@, Wide(len))]]

\* "End of data, 0<CRLF><CRLF> is needed"
NeedsZeroChunk(m) ==
    "HTTP_MSGF_TE_CHNK" \notin m.flags /\ m.chunk_len = Wide(0)

\* http_compression_buffer_end; returns [m, buf, tmp, zero]: the buffers
\* after their swap.  identity_flush does nothing.
http_compression_buffer_end(m, ib, ob) ==
    LET chunk == IF Len(ob.i) > 8
                 THEN http_emit_chunk_size(Wide(Len(ob.i) - 8), 0)
                          \o SubSeq(ob.i, 9, Len(ob.i)) \o <<"CR", "LF">>
                          \o (IF NeedsZeroChunk(m)
                              THEN <<"0", "CR", "LF", "CR", "LF">> ELSE <<>>)
                 ELSE <<>>
    IN  [m |-> [m EXCEPT !.next = 0],
         buf |-> b_adv([i |-> ib.i, o |-> ob.o \o chunk], m.next),
         tmp |-> ib,
         zero |-> Len(ob.i) > 8 /\ NeedsZeroChunk(m)]

\* the calls of http_compression_buffer_end in http_response_forward_body:
\* "if (compressing && consumed_data)"
CompEnd(a) ==
    IF a.compressing /\ a.consumed # 0
    THEN The({ [a EXCEPT !.m = r.m, !.inb = r.buf, !.tmp = r.tmp,
                         !.compressing = FALSE,
                         !.h.ends = @ + 1,
                         !.h.zeros = IF r.zero THEN @ + 1 ELSE @,
                         !.h.lastzero = r.zero]
               : r \in {http_compression_buffer_end(a.m, a.inb, a.tmp)} })
    ELSE a

\* "skipping data in buffer for compression"
CompSkip(a) ==
    IF a.compressing
    THEN [a EXCEPT !.inb = b_adv(a.inb, a.m.next),
                   !.m.next = 0, !.m.sov = 0, !.m.sol = 0]
    ELSE a

\* return_bad_res and aborted_xfer of http_response_forward_body
ResBad(a) == [a EXCEPT !.m.msg_state = "ERROR", !.decision = "bad_res"]

\* missing_data of http_response_forward_body, for a channel that is not
\* shut
ResMissing(a) ==
    LET a1    == CompEnd(a)
        bytes == a1.m.sov - a1.m.sol
        pend  == a1.m.chunk_len # Wide(0) \/ bytes # 0
        f     == channel_forward(a1.inb.i, a1.tf,
                                 WideAdd(a1.m.chunk_len, Wide(bytes)))
    IN  IF a1.comp \/ ~pend THEN [a1 EXCEPT !.decision = "missing_data"]
        ELSE [a1 EXCEPT !.m.sol = a1.m.sov, !.m.next = @ - bytes,
                        !.m.chunk_len = Wide(0),
                        !.inb = [i |-> f.buf, o |-> @.o \o f.taken],
                        !.tf = f.tf, !.decision = "missing_data"]

\* the loop of http_response_forward_body
RECURSIVE ResForwardLoop(_)
ResForwardLoop(a) ==
    LET bytes == a.m.sov - a.m.sol
        pend  == ~a.comp /\ (a.m.chunk_len # Wide(0) \/ bytes # 0)
        f     == channel_forward(a.inb.i, a.tf,
                                 WideAdd(a.m.chunk_len, Wide(bytes)))
        a1    == IF ~pend THEN a
                 ELSE [a EXCEPT !.m.sol = a.m.sov, !.m.next = @ - bytes,
                                !.m.chunk_len = Wide(0),
                                !.inb = [i |-> f.buf, o |-> @.o \o f.taken],
                                !.tf = f.tf]
        st    == a.m.msg_state
    IN  IF st = "DATA"
        THEN The({ IF a2.decision = "aborted" THEN ResBad(a2)
                   ELSE IF a2.tf # Wide(0) \/ a2.m.chunk_len # Wide(0)
                   THEN ResMissing(a2)
                   ELSE IF "HTTP_MSGF_TE_CHNK" \in a2.m.flags
                   THEN ResForwardLoop([a2 EXCEPT !.m.msg_state = "CHUNK_CRLF"])
                   ELSE ResForwardLoop(
                            CompEnd([a2 EXCEPT !.m.msg_state = "DONE"]))
                   : a2 \in { IF ~a1.compressing THEN a1
                              ELSE The({ [a1 EXCEPT
                                            !.m = r.m, !.inb = r.inb,
                                            !.tmp = r.out,
                                            !.consumed = IF r.ret < 0 THEN @
                                                         ELSE @ + r.ret,
                                            !.decision = IF r.ret < 0
                                                        THEN "aborted" ELSE @]
                                   : r \in {http_compression_buffer_add_data(
                                               a1.m, a1.inb, a1.tmp)} }) } })
        ELSE IF st = "CHUNK_SIZE"
        THEN The({ IF r.ret = 0 THEN ResMissing(a1)
                   ELSE IF r.ret < 0 THEN ResBad([a1 EXCEPT !.m = r.m])
                   ELSE IF r.m.chunk_len # Wide(0)
                   THEN ResForwardLoop(CompSkip([a1 EXCEPT !.m = r.m]))
                   ELSE ResForwardLoop(CompEnd([a1 EXCEPT !.m = r.m]))
                   : r \in {http_parse_chunk_size(a1.m, a1.inb.i)} })
        ELSE IF st = "CHUNK_CRLF"
        THEN The({ IF r.ret = 0 THEN ResMissing(a1)
                   ELSE IF r.ret < 0 THEN ResBad([a1 EXCEPT !.m = r.m])
                   ELSE ResForwardLoop(CompSkip([a1 EXCEPT !.m = r.m]))
                   : r \in {http_skip_chunk_crlf(a1.m, a1.inb.i)} })
        ELSE IF st = "TRAILERS"
        THEN The({ IF r.ret = 0 THEN ResMissing([a1 EXCEPT !.m = r.m])
                   ELSE IF r.ret < 0 THEN ResBad([a1 EXCEPT !.m = r.m])
                   ELSE IF a1.comp
                   THEN ResForwardLoop([a1 EXCEPT
                                           !.m = [r.m EXCEPT !.next = 0],
                                           !.inb = b_adv(@, r.m.next)])
                   ELSE ResForwardLoop([a1 EXCEPT !.m = r.m])
                   : r \in {http_forward_trailers(a1.m, a1.inb.i)} })
        ELSE [a1 EXCEPT !.decision = "done"]

\* http_response_forward_body on the bytes of the body, for a response whose
\* channels are sound; <comp> tells that s->comp_algo is set
res_forward_body(m, inb, tf, comp, h) ==
    LET a  == [m |-> m, inb |-> inb, tf |-> tf, comp |-> comp, h |-> h,
               tmp |-> [i |-> <<>>, o |-> <<>>], compressing |-> FALSE,
               consumed |-> 0, decision |-> "none"]
        a1 == IF m.msg_state # "BODY" THEN a
              ELSE [a EXCEPT !.inb = b_adv(inb, m.sov),
                             !.m.next = 0, !.m.sov = 0,
                             !.m.msg_state =
                                 IF "HTTP_MSGF_TE_CHNK" \in m.flags
                                 THEN "CHUNK_SIZE" ELSE "DATA"]
    IN  IF m.msg_state \notin FromBody THEN [a EXCEPT !.decision = "skip"]
        ELSE IF ~comp THEN ResForwardLoop(a1)
        ELSE The({ IF r.ret < 0 THEN ResMissing(a1)
                   ELSE ResForwardLoop([a1 EXCEPT !.m = r.m, !.inb = r.inb,
                                                  !.tmp = r.out,
                                                  !.compressing = TRUE])
                   : r \in {http_compression_buffer_init(a1.m, a1.inb)} })


\* the head of a response, parsed
ResponseHead ==
    http_msg_analyzer(InitMsg("RPBEFORE", -2), hdr_idx_init(EmptyIdx),
                      <<"H", "SP", "H", "SP", "G", "LF", "LF">>, 0)

\* a body as a server writes it with the chunked coding
RECURSIVE ServerChunks(_)
ServerChunks(datas) ==
    IF datas = <<>> THEN <<"0", "CR", "LF", "CR", "LF">>
    ELSE <<hextab[Len(datas[1]) + 1], "CR", "LF">> \o datas[1]
             \o <<"CR", "LF">> \o ServerChunks(Tail(datas))

\* responses: chunked or with a Content-Length, compressed or not
CompBodies ==
    { [NoComp EXCEPT !.chunked = TRUE, !.comp = c, !.datas = ds,
                     !.wire = ServerChunks(ds)]
      : ds \in ChunkLists, c \in BOOLEAN }
    \cup
    { [NoComp EXCEPT !.chunked = FALSE, !.comp = c, !.datas = <<Concat(ds)>>,
                     !.wire = Concat(ds)]
      : ds \in ChunkLists, c \in BOOLEAN }

Comp == hist.comp

InitCompress ==
    /\ idx = ResponseHead.idx
    /\ buf = ResponseHead.buf
    /\ buf_p = 0
    /\ o = 0
    /\ stream = <<>>
    /\ ctx = NoFind
    /\ s = [InitSession(DefaultProxy) EXCEPT
               !.rep = [flags |-> {}, analysers |-> {"AN_RES_HTTP_XFER_BODY"},
                        o |-> 0, to_forward |-> Wide(0)]]
    /\ backend = DefaultProxy
    /\ \E c \in CompBodies :
          /\ hist = [NoHist EXCEPT !.comp = c]
          /\ msg = ResponseHead.m @@
                   [chunk_len |-> IF c.chunked THEN Wide(0)
                                  ELSE Wide(Len(c.wire)),
                    body_len |-> IF c.chunked THEN Wide(0)
                                 ELSE Wide(Len(c.wire)),
                    flags |-> IF c.chunked THEN {"HTTP_MSGF_TE_CHNK"}
                              ELSE {"HTTP_MSGF_CNT_LEN"}]
          /\ first = msg

\* the analyser runs on the response buffer, to which <d> was added
ResForwardBody(d) ==
    LET tf == s.rep.to_forward
        k  == IF WideLe(tf, Wide(Len(d))) THEN tf.lo ELSE Len(d)
    IN  \E r \in {res_forward_body(
                     msg,
                     [i |-> buf \o SubSeq(d, k + 1, Len(d)),
                      o |-> Comp.pend \o SubSeq(d, 1, k)],
                     WideSub(tf, Wide(k)), Comp.comp, Comp)} :
           /\ msg' = r.m
           /\ buf' = r.inb.i
           /\ o' = Len(r.inb.o)
           /\ hist' = [hist EXCEPT !.comp = [r.h EXCEPT !.pend = r.inb.o]]
           /\ s' = [s EXCEPT !.rep.to_forward = r.tf,
                             !.rep.analysers = IF r.decision = "bad_res"
                                               THEN {} ELSE @]

\* <n> more bytes of the response arrive
RecvRes(n) ==
    /\ s.rep.analysers # {}
    /\ Len(stream) + n <= Len(Comp.wire)
    /\ stream' = stream \o SubSeq(Comp.wire, Len(stream) + 1, Len(stream) + n)
    /\ ResForwardBody(SubSeq(Comp.wire, Len(stream) + 1, Len(stream) + n))
    /\ UNCHANGED <<idx, buf_p, first, ctx, backend>>

\* the analyser is woken up without new input
WakeRes ==
    /\ s.rep.analysers # {}
    /\ msg.msg_state # "DONE"
    /\ ResForwardBody(<<>>)
    /\ UNCHANGED <<idx, buf_p, stream, first, ctx, backend>>

\* the client reads what waits for it
SendRes ==
    /\ Comp.pend # <<>>
    /\ hist' = [hist EXCEPT !.comp.sent = @ \o Comp.pend, !.comp.pend = <<>>]
    /\ o' = 0
    /\ UNCHANGED <<msg, idx, buf, buf_p, stream, first, ctx, s, backend>>

NextCompress ==
    \/ \E n \in 1..MaxPiece : RecvRes(n)
    \/ WakeRes
    \/ SendRes

SpecCompress == InitCompress /\ [][NextCompress]_vars


(***************************************************************************)
(* Observers of the compression                                            *)
(***************************************************************************)
\* the body the client is sent, and is about to be: what follows the head
BodyOut ==
    SubSeq(Comp.sent \o Comp.pend, Len(ResponseHead.buf) + 1,
           Len(Comp.sent) + Len(Comp.pend))

ZeroChunk == <<"0", "CR", "LF", "CR", "LF">>

EndsWithZeroChunk(b) ==
    Len(b) >= 5 /\ SubSeq(b, Len(b) - 4, Len(b)) = ZeroChunk

\* C21: the compression never writes a zero chunk for a chunked source, and
\* never two of them; for a source that is not chunked, once the body is
\* over it has written one, as the last thing it emitted, and the body sent
\* ends with it.
C21_ZeroChunkOnce ==
    Comp.comp =>
       /\ Comp.chunked => Comp.zeros = 0
       /\ Comp.zeros <= 1
       /\ ~Comp.chunked /\ msg.msg_state = "DONE" =>
             /\ Comp.zeros = 1 /\ Comp.lastzero
             /\ EndsWithZeroChunk(BodyOut)

\* the same as far as it holds: no zero chunk is ever added to a chunked
\* source, nor two to any
C21_NeverTwice ==
    Comp.comp => (Comp.chunked => Comp.zeros = 0) /\ Comp.zeros <= 1


(***************************************************************************)
(* The compression level of a stream: deflate_flush                        *)
(***************************************************************************)
\* the level is compared with the level of the settings
BelowMaxLevel(cur_lvl, g) == cur_lvl < g.comp_maxlevel

\* "comp_ctx->cur_lvl < global.comp_rate_lim"
BelowRateLim(cur_lvl, g) == cur_lvl < g.comp_rate_lim

\* deflate_flush, "compression rate limit": the level after the flush, <rate>
\* being what read_freq_ctr(&global.comp_bps_out) gives
deflate_flush(cur_lvl, g, rate) ==
    IF g.comp_rate_lim > 0
    THEN IF rate > g.comp_rate_lim
         THEN IF cur_lvl > 0 THEN cur_lvl - 1 ELSE cur_lvl
         ELSE IF BelowRateLim(cur_lvl, g) THEN cur_lvl + 1 ELSE cur_lvl
    ELSE cur_lvl

Level == hist.level

\* a stream starts with a level of the settings' range
InitLevel ==
    /\ msg = ResponseHead.m
    /\ first = ResponseHead.m
    /\ idx = ResponseHead.idx
    /\ buf = ResponseHead.buf
    /\ buf_p = 0
    /\ o = 0
    /\ stream = <<>>
    /\ ctx = NoFind
    /\ backend = DefaultProxy
    /\ \E lim \in 0..MaxRate, lvl \in 1..MaxLevel :
          hist = [NoHist EXCEPT !.level.comp_rate_lim = lim,
                                !.level.comp_maxlevel = lvl]
    /\ \E l \in 0..MaxLevel :
          /\ l <= Level.comp_maxlevel
          /\ s = InitSession(DefaultProxy) @@ [comp_ctx |-> [cur_lvl |-> l]]

\* the end of a buffer of compressed data, the output rate being <rate>
DeflateFlush(rate) ==
    /\ s' = [s EXCEPT !.comp_ctx.cur_lvl = deflate_flush(@, Level, rate)]
    /\ hist' = [hist EXCEPT !.level.ran = TRUE, !.level.rate = rate,
                            !.level.before = s.comp_ctx.cur_lvl]
    /\ UNCHANGED <<pvars, backend>>

NextLevel == \E rate \in 0..(MaxRate + 1) : DeflateFlush(rate)

SpecLevel == InitLevel /\ [][NextLevel]_vars

cur_lvl == s.comp_ctx.cur_lvl

\* C22: the level stays between 0 and the level of the settings; a flush
\* lowers it only when the rate read is above the ceiling, and raises it
\* only when the rate is not above the ceiling and the level was below the
\* level of the settings.
C22_LevelInRange ==
    /\ 0 <= cur_lvl /\ cur_lvl <= Level.comp_maxlevel
    /\ Level.ran /\ cur_lvl < Level.before
          => Level.rate > Level.comp_rate_lim
    /\ Level.ran /\ cur_lvl > Level.before
          => /\ Level.rate <= Level.comp_rate_lim
             /\ Level.before < Level.comp_maxlevel

\* what the code keeps of it: the level stays between 0 and the largest of
\* the level of the settings and the rate limit, a number of bytes per
\* second
C22_LevelAsCoded ==
    /\ 0 <= cur_lvl
    /\ cur_lvl <= Level.comp_maxlevel \/ cur_lvl <= Level.comp_rate_lim
    /\ Level.ran /\ cur_lvl < Level.before
          => Level.rate > Level.comp_rate_lim
    /\ Level.ran /\ cur_lvl > Level.before
          => /\ Level.rate <= Level.comp_rate_lim
             /\ Level.before < Level.comp_rate_lim


(***************************************************************************)
(* The transfer length of a message: the end of http_wait_for_request and  *)
(* of http_wait_for_response, on the values of the headers                 *)
(***************************************************************************)
\* the version of the message is not looked at
AnyVersion(flags) == TRUE

\* "msg->flags & HTTP_MSGF_VER_11"
IsVer11(flags) == "HTTP_MSGF_VER_11" \in flags

\* the loop over the values of Transfer-Encoding; returns
\* [flags, use_close_only]
RECURSIVE TransferEncoding(_, _)
TransferEncoding(flags, tes) ==
    IF ~IsVer11(flags) \/ tes = <<>>
    THEN [flags |-> flags, use_close_only |-> FALSE]
    ELSE IF tes[1] = "chunked"
    THEN TransferEncoding(
             flags \cup {"HTTP_MSGF_TE_CHNK", "HTTP_MSGF_XFER_LEN"},
             Tail(tes))
    ELSE IF "HTTP_MSGF_TE_CHNK" \in flags
    THEN [flags |-> flags \ {"HTTP_MSGF_TE_CHNK", "HTTP_MSGF_XFER_LEN"},
          use_close_only |-> TRUE]
    ELSE TransferEncoding(flags, Tail(tes))

\* strl2llrc on the values the model knows: [err, cl]
strl2llrc(v) ==
    CASE v = "0" -> [err |-> FALSE, cl |-> 0]
      [] v = "2" -> [err |-> FALSE, cl |-> 2]
      [] v = "-1" -> [err |-> FALSE, cl |-> -1]
      [] OTHER -> [err |-> TRUE, cl |-> 0]

\* two values of Content-Length that differ are not looked at
RECURSIVE ContentLengthLast(_, _, _)
ContentLengthLast(r, use_close_only, cls) ==
    IF "HTTP_MSGF_TE_CHNK" \in r.flags \/ use_close_only \/ cls = <<>>
    THEN r
    ELSE IF cls[1] = "" \/ strl2llrc(cls[1]).err \/ strl2llrc(cls[1]).cl < 0
    THEN [r EXCEPT !.bad = TRUE]
    ELSE ContentLengthLast(
             [r EXCEPT !.flags = @ \cup {"HTTP_MSGF_CNT_LEN",
                                         "HTTP_MSGF_XFER_LEN"},
                       !.chunk_len = strl2llrc(cls[1]).cl],
             use_close_only, Tail(cls))

\* the loop over the values of Content-Length; <r> is
\* [flags, chunk_len, bad]
RECURSIVE ContentLength(_, _, _)
ContentLength(r, use_close_only, cls) ==
    IF "HTTP_MSGF_TE_CHNK" \in r.flags \/ use_close_only \/ cls = <<>>
    THEN r
    ELSE IF cls[1] = "" \/ strl2llrc(cls[1]).err \/ strl2llrc(cls[1]).cl < 0
    THEN [r EXCEPT !.bad = TRUE]
    ELSE IF "HTTP_MSGF_CNT_LEN" \in r.flags
            /\ r.chunk_len # strl2llrc(cls[1]).cl
    THEN [r EXCEPT !.bad = TRUE]
    ELSE ContentLength(
             [r EXCEPT !.flags = @ \cup {"HTTP_MSGF_CNT_LEN",
                                         "HTTP_MSGF_XFER_LEN"},
                       !.chunk_len = strl2llrc(cls[1]).cl],
             use_close_only, Tail(cls))

\* the transfer length of a request: [flags, chunk_len, bad]
RequestLength(flags, tes, cls) ==
    LET t == TransferEncoding(flags, tes)
        c == ContentLength([flags |-> t.flags, chunk_len |-> 0,
                            bad |-> FALSE], t.use_close_only, cls)
    IN  IF c.bad \/ t.use_close_only THEN c
        ELSE [c EXCEPT !.flags = @ \cup {"HTTP_MSGF_XFER_LEN"}]

\* "Skip parsing if no content length is possible"
NoBodyPossible(meth, status) ==
    \/ meth = "HEAD"
    \/ (status >= 100 /\ status < 200)
    \/ status = 204 \/ status = 304

\* the transfer length of a response
ResponseLength(flags, tes, cls, meth, status) ==
    IF NoBodyPossible(meth, status)
    THEN [flags |-> flags \cup {"HTTP_MSGF_XFER_LEN"}, chunk_len |-> 0,
          bad |-> FALSE]
    ELSE The({ ContentLength([flags |-> t.flags, chunk_len |-> 0,
                              bad |-> FALSE], t.use_close_only, cls)
               : t \in {TransferEncoding(flags, tes)} })

\* return_bad_req of http_wait_for_request
BadLength400(x) ==
    [stream_int_retnclose(x, 1) EXCEPT !.txn.req.msg_state = "ERROR",
                                       !.txn.status = 400,
                                       !.req.analysers = {}]

\* hdr_response_bad then abort_response of http_wait_for_response
BadLength502(x) ==
    [x EXCEPT !.txn.status = 502,
              !.rep = Forward([@ EXCEPT !.analysers = {},
                                        !.flags = @ \cup {"CF_AUTO_CLOSE"}],
                              1),
              !.req.flags = @ \cup {"CF_SHUTR_NOW", "CF_AUTO_CLOSE"}]

HeaderValues(V) == UNION {[1..n -> V] : n \in 0..MaxValues}

Frame == hist.frame

InitFraming ==
    /\ idx = EmptyIdx
    /\ buf = <<>>
    /\ buf_p = 0
    /\ o = 0
    /\ stream = <<>>
    /\ ctx = NoFind
    /\ s = InitSession(DefaultProxy)
    /\ backend = DefaultProxy
    /\ \E dir \in {"req", "rsp"}, v \in BOOLEAN,
          tes \in HeaderValues({"chunked", "gzip"}),
          cls \in HeaderValues({"", "x", "-1", "0", "2"}),
          meth \in {"GET", "HEAD"}, status \in {200, 204} :
          /\ dir = "req" => status = 200
          /\ hist = [NoHist EXCEPT
                        !.frame = [NoFrame EXCEPT
                                      !.dir = dir, !.ver11 = v, !.tes = tes,
                                      !.cls = cls, !.meth = meth,
                                      !.status = status]]
          /\ msg = [InitMsg(IF dir = "req" THEN "RQBEFORE" ELSE "RPBEFORE",
                            -2) EXCEPT !.msg_state = "BODY"]
                   @@ [flags |-> IF v THEN {"HTTP_MSGF_VER_11"} ELSE {},
                       chunk_len |-> 0, body_len |-> 0]
          /\ first = msg

\* the headers of the message are complete: its transfer length is found
TransferLength ==
    /\ ~Frame.ran
    /\ \E r \in { IF Frame.dir = "req"
                  THEN RequestLength(msg.flags, Frame.tes, Frame.cls)
                  ELSE ResponseLength(msg.flags, Frame.tes, Frame.cls,
                                      Frame.meth, Frame.status) } :
          /\ msg' = [msg EXCEPT !.flags = r.flags, !.chunk_len = r.chunk_len,
                                !.body_len = r.chunk_len,
                                !.msg_state = IF r.bad /\ Frame.dir = "req"
                                              THEN "ERROR" ELSE @]
          /\ s' = IF ~r.bad THEN s
                  ELSE IF Frame.dir = "req" THEN BadLength400(s)
                  ELSE BadLength502(s)
          /\ hist' = [hist EXCEPT !.frame.ran = TRUE, !.frame.bad = r.bad]
    /\ UNCHANGED <<idx, buf, buf_p, o, stream, first, ctx, backend>>

NextFraming == TransferLength

SpecFraming == InitFraming /\ [][NextFraming]_vars

\* how the body of the message is delimited
Framing ==
    IF "HTTP_MSGF_TE_CHNK" \in msg.flags THEN "chunked"
    ELSE IF "HTTP_MSGF_CNT_LEN" \in msg.flags THEN "length"
    ELSE IF "HTTP_MSGF_XFER_LEN" \in msg.flags THEN "no body"
    ELSE "close"

\* the message has the chunked coding, applied last
ChunkedLast ==
    Frame.tes # <<>> /\ Frame.tes[Len(Frame.tes)] = "chunked"

HasChunked == \E k \in 1..Len(Frame.tes) : Frame.tes[k] = "chunked"

ChunkedFinal ==
    /\ HasChunked
    /\ \A k \in 1..Len(Frame.tes), j \in 1..Len(Frame.tes) :
          Frame.tes[k] = "chunked" /\ k < j => Frame.tes[j] = "chunked"

tick_isset(t) == t # 0

tick_is_expired(t, now) == tick_isset(t) /\ t <= now

\* acl_exec_cond: without its sample a condition misses as long as the
\* sample may come (not SMP_OPT_FINAL), and fails afterwards
acl_exec_cond(rule, data, final) ==
    IF data < rule.need THEN (IF final THEN "FAIL" ELSE "MISS")
    ELSE IF rule.match THEN "PASS" ELSE "FAIL"

\* the loop over the rules: "miss", "reject" or "accept"
RECURSIVE InspectRules(_, _, _)
InspectRules(rules, data, final) ==
    IF rules = <<>> THEN "accept"
    ELSE LET rule == rules[1]
             r    == acl_exec_cond(rule, data, final)
             ret  == IF rule.pol = "none" THEN TRUE
                     ELSE IF rule.pol = "unless" THEN r # "PASS"
                     ELSE r = "PASS"
         IN  IF rule.pol # "none" /\ r = "MISS" THEN "miss"
             ELSE IF ~ret THEN InspectRules(Tail(rules), data, final)
             ELSE IF rule.action = "reject" THEN "reject"
             ELSE IF rule.action = "track"
             THEN InspectRules(Tail(rules), data, final)
             ELSE "accept"

\* partial of tcp_inspect_request, as SMP_OPT_FINAL or not
ReqFinal(chn, be, data, now) ==
    \/ "CF_SHUTR" \in chn.flags
    \/ data >= MaxData
    \/ be.inspect_delay = 0
    \/ tick_is_expired(chn.analyse_exp, now)

\* the expiration of the delay is not looked at
ResFinalShutOnly(chn, be, data, now) == "CF_SHUTR" \in chn.flags

\* partial of tcp_inspect_response
ResFinal(chn, be, data, now) ==
    \/ "CF_SHUTR" \in chn.flags
    \/ tick_is_expired(chn.analyse_exp, now)

\* tcp_inspect_request (dir = "req") and tcp_inspect_response ("rep") on
\* session <x>; returns [x, ret, decision]
tcp_inspect(x, dir, be, data, now, an_bit) ==
    LET chn   == x[dir]
        other == IF dir = "req" THEN "rep" ELSE "req"
        final == IF dir = "req" THEN ReqFinal(chn, be, data, now)
                 ELSE ResFinal(chn, be, data, now)
        v     == InspectRules(be.inspect_rules, data, final)
    IN  IF v = "miss"
        THEN [x |-> [x EXCEPT ![dir].analyse_exp =
                         IF ~tick_isset(@) /\ be.inspect_delay # 0
                         THEN now + be.inspect_delay ELSE @,
                                ![dir].flags =
                         IF dir = "req" THEN @ \ {"CF_AUTO_CONNECT"}
                         ELSE @],
              ret |-> 0, decision |-> v, final |-> final]
        ELSE IF v = "reject"
        THEN [x |-> [x EXCEPT ![dir].flags = @ \cup {"CF_SHUTR", "CF_SHUTW"},
                              ![other].flags = @ \cup {"CF_SHUTR", "CF_SHUTW"},
                              ![dir].analysers = {}],
              ret |-> 0, decision |-> v, final |-> final]
        ELSE [x |-> [x EXCEPT ![dir].analysers = @ \ {an_bit},
                              ![dir].analyse_exp = 0],
              ret |-> 1, decision |-> v, final |-> final]

TcpRules ==
    [pol : {"none"}, need : {0}, match : {TRUE},
     action : {"accept", "reject"}]
    \cup [pol : {"if", "unless"}, need : {0, 1}, match : BOOLEAN,
          action : {"accept", "reject", "track"}]

\* no rule, one rule, two rules
TcpRuleLists ==
    {<<>>} \cup {<<r>> : r \in TcpRules}
           \cup {<<q, r>> : q \in TcpRules, r \in TcpRules}

Tcp == hist.tcp

TcpBit == IF Tcp.dir = "req" THEN "AN_REQ_INSPECT_FE" ELSE "AN_RES_INSPECT"

InitInspect ==
    /\ msg = InitMsg("RQBEFORE", -2)
    /\ first = InitMsg("RQBEFORE", -2)
    /\ idx = EmptyIdx
    /\ buf = <<>>
    /\ buf_p = 0
    /\ o = 0
    /\ stream = <<>>
    /\ ctx = NoFind
    /\ \E dir \in {"req", "rep"}, rules \in TcpRuleLists, d \in {0, 2} :
          /\ dir = "rep" => \A k \in 1..Len(rules) : rules[k].action # "track"
          /\ hist = [NoHist EXCEPT !.tcp.dir = dir]
          /\ backend = DefaultProxy @@ [inspect_rules |-> rules,
                                        inspect_delay |-> d]
          /\ s = [InitSession(DefaultProxy) EXCEPT
                     !.req = [flags |-> {}, o |-> 0, analyse_exp |-> 0,
                              analysers |-> IF dir = "req"
                                            THEN {"AN_REQ_INSPECT_FE"}
                                            ELSE {}],
                     !.rep = [flags |-> {}, o |-> 0, analyse_exp |-> 0,
                              analysers |-> IF dir = "rep"
                                            THEN {"AN_RES_INSPECT"}
                                            ELSE {}]]

\* the session is processed: the analyser is called if it is still there
Inspect ==
    /\ TcpBit \in s[Tcp.dir].analysers
    /\ \E r \in {tcp_inspect(s, Tcp.dir, backend, Len(buf), Tcp.now,
                             TcpBit)} :
          /\ s' = r.x
          /\ hist' = [hist EXCEPT
                         !.tcp.ran = TRUE, !.tcp.ret = r.ret,
                         !.tcp.decision = r.decision, !.tcp.final = r.final,
                         !.tcp.expired =
                             tick_is_expired(s[Tcp.dir].analyse_exp, Tcp.now),
                         !.tcp.shutr = "CF_SHUTR" \in s[Tcp.dir].flags,
                         !.tcp.full = Len(buf) >= MaxData,
                         !.tcp.exp0 = s[Tcp.dir].analyse_exp]
    /\ UNCHANGED <<pvars, backend>>

\* one more byte is received on the inspected channel
TcpData ==
    /\ "CF_SHUTR" \notin s[Tcp.dir].flags
    /\ Len(buf) < MaxData
    /\ buf' = Append(buf, "x")
    /\ UNCHANGED <<msg, idx, buf_p, o, stream, first, ctx, svars>>

\* the peer closes
TcpShutr ==
    /\ "CF_SHUTR" \notin s[Tcp.dir].flags
    /\ s' = [s EXCEPT ![Tcp.dir].flags = @ \cup {"CF_SHUTR"}]
    /\ UNCHANGED <<pvars, backend, hist>>

\* time passes
TcpTick ==
    /\ Tcp.now < MaxTime
    /\ hist' = [hist EXCEPT !.tcp.now = @ + 1]
    /\ UNCHANGED <<pvars, s, backend>>

NextInspect == Inspect \/ TcpData \/ TcpShutr \/ TcpTick

SpecInspect == InitInspect /\ [][NextInspect]_vars

\* C24: the analyser suspends on a condition that misses only while the
\* input is open and the delay has not expired.  When it is called once the
\* delay has expired, or the input is shut, no condition misses: it accepts
\* or rejects, and it does not suspend.
C24_MissSuspends ==
    Tcp.ran =>
       /\ Tcp.ret = 0 /\ Tcp.decision = "miss" => ~Tcp.expired /\ ~Tcp.shutr
       /\ Tcp.expired \/ Tcp.shutr =>
             /\ Tcp.final
             /\ Tcp.decision \in {"accept", "reject"}
             /\ Tcp.decision = "accept" =>
                   Tcp.ret = 1 /\ TcpBit \notin s[Tcp.dir].analysers
             /\ Tcp.decision = "reject" => s[Tcp.dir].analysers = {}
       /\ Tcp.decision = "miss" =>
             /\ TcpBit \in s[Tcp.dir].analysers
             /\ backend.inspect_delay # 0 =>
                   tick_isset(s[Tcp.dir].analyse_exp)
             /\ tick_isset(Tcp.exp0) => s[Tcp.dir].analyse_exp = Tcp.exp0

C24_Witness ==
    /\ Tcp.ran /\ Tcp.expired /\ ~Tcp.shutr /\ ~Tcp.full
    /\ Tcp.decision = "accept" /\ Len(buf) = 0
    /\ Len(backend.inspect_rules) = 2
    /\ backend.inspect_rules[1].need = 1
    /\ backend.inspect_rules[1].pol = "if"
    /\ backend.inspect_rules[1].action = "reject"
    /\ backend.inspect_rules[1].match

(***************************************************************************)
(* The http-request rules and the tarpit.                                  *)
(*                                                                         *)
(* A rule is [action, pol, need, match, hdr]: its condition is absent      *)
(* ("none"), "if" or "unless" and is evaluated with SMP_OPT_FINAL, its     *)
(* header is the one an add-header or set-header rule writes.  The request *)
(* headers the rules work on are a sequence of [name, value].  The proxy   *)
(* has no block condition, no reqxxx filter, no redirect rule, no          *)
(* "http-request redirect" and no statistics.                              *)
(***************************************************************************)
\* an "allow" does not end the evaluation
StopsOnNoAllow ==
    {"HTTP_REQ_ACT_DENY", "HTTP_REQ_ACT_TARPIT", "HTTP_REQ_ACT_AUTH"}

\* the actions the switch of http_req_get_intercept_rule returns on
StopsOn ==
    {"HTTP_REQ_ACT_ALLOW", "HTTP_REQ_ACT_DENY", "HTTP_REQ_ACT_TARPIT",
     "HTTP_REQ_ACT_AUTH"}

\* http_req_get_intercept_rule from rule <k> on; <r> is [rule, flags, hdrs]:
\* the rule returned (0 is NULL), txn->flags and the request headers
RECURSIVE http_req_get_intercept_rule(_, _, _)
http_req_get_intercept_rule(rules, k, r) ==
    IF k > Len(rules) THEN r
    ELSE LET rule == rules[k]
             ret  == IF rule.pol = "unless"
                     THEN acl_exec_cond(rule, 0, TRUE) # "PASS"
                     ELSE acl_exec_cond(rule, 0, TRUE) = "PASS"
         IN  IF rule.action = "HTTP_REQ_ACT_MAX"
             THEN http_req_get_intercept_rule(rules, k + 1, r)
             ELSE IF rule.pol # "none" /\ ~ret
             THEN http_req_get_intercept_rule(rules, k + 1, r)
             ELSE IF rule.action \in StopsOn
             THEN CASE rule.action = "HTTP_REQ_ACT_ALLOW" -> r
                    [] rule.action = "HTTP_REQ_ACT_DENY" ->
                         [r EXCEPT !.rule = k,
                                   !.flags = @ \cup {"TX_CLDENY"}]
                    [] rule.action = "HTTP_REQ_ACT_TARPIT" ->
                         [r EXCEPT !.rule = k,
                                   !.flags = @ \cup {"TX_CLTARPIT"}]
                    [] OTHER -> [r EXCEPT !.rule = k]
             ELSE LET kept == IF rule.action = "HTTP_REQ_ACT_SET_HDR"
                              THEN SelectSeq(r.hdrs,
                                       LAMBDA h : h.name # rule.hdr)
                              ELSE r.hdrs
                      added == IF rule.action \in {"HTTP_REQ_ACT_SET_HDR",
                                                   "HTTP_REQ_ACT_ADD_HDR"}
                               THEN Append(kept, [name |-> rule.hdr,
                                                  value |-> k])
                               ELSE kept
                  IN  http_req_get_intercept_rule(rules, k + 1,
                                                  [r EXCEPT !.hdrs = added])

\* tick_add_ifset then tick_add(now_ms, 0) of the tarpit branch
TarpitExp(now, timeout) == IF tick_isset(timeout) THEN now + timeout ELSE now

\* http_process_req_common for proxy <px>, from the http-request rules on;
\* returns [x, ret, rule, hdrs]
req_common_rules(x, px, hdrs, now, an_bit) ==
    IF Before(x.txn.req.msg_state, "BODY")
    THEN [x |-> [x EXCEPT !.req.flags = @ \ {"CF_AUTO_CONNECT"}],
          ret |-> 0, rule |-> 0, hdrs |-> hdrs]
    ELSE
    LET x0 == [x EXCEPT !.req.analysers = @ \ {an_bit},
                        !.req.analyse_exp = 0]
        r  == http_req_get_intercept_rule(px.http_req_rules, 1,
                  [rule |-> 0, flags |-> x0.txn.flags, hdrs |-> hdrs])
        x1 == [x0 EXCEPT !.txn.flags = r.flags]
        last == IF r.rule = 0 THEN "none"
                ELSE px.http_req_rules[r.rule].action
    IN  IF "TX_CLDENY" \in r.flags
        THEN [x |-> [stream_int_retnclose([x1 EXCEPT !.txn.status = 403], 1)
                        EXCEPT !.req.analysers = {},
                               !.req.analyse_exp = 0],
              ret |-> 0, rule |-> r.rule, hdrs |-> r.hdrs]
        ELSE IF "TX_CLTARPIT" \in r.flags
        THEN [x |-> [x1 EXCEPT !.req.o = 0,
                               !.req.flags = @ \ {"CF_AUTO_CONNECT"},
                               !.req.analysers = {"AN_REQ_HTTP_TARPIT"},
                               !.req.analyse_exp =
                                   TarpitExp(now, px.timeout_tarpit)],
              ret |-> 1, rule |-> r.rule, hdrs |-> <<>>]
        ELSE IF last = "HTTP_REQ_ACT_AUTH"
        THEN [x |-> [stream_int_retnclose(
                         [ReqConnMode(x1) EXCEPT !.txn.status = 401], 1)
                        EXCEPT !.req.analysers = {},
                               !.req.analyse_exp = 0],
              ret |-> 0, rule |-> r.rule, hdrs |-> r.hdrs]
        ELSE [x |-> [ReqConnMode(x1) EXCEPT
                        !.req.flags = @ \cup {"CF_SEND_DONTWAIT"}],
              ret |-> 1, rule |-> 0, hdrs |-> r.hdrs]

\* the tarpit goes on whatever the date
TarpitWaitsOpen(chn, now) ==
    chn.flags \cap {"CF_SHUTR", "CF_READ_ERROR"} = {}

\* the test at the head of http_process_tarpit
TarpitWaits(chn, now) ==
    /\ chn.flags \cap {"CF_SHUTR", "CF_READ_ERROR"} = {}
    /\ ~tick_is_expired(chn.analyse_exp, now)

\* http_process_tarpit; returns [x, ret]
http_process_tarpit(x, now, an_bit) ==
    LET x0 == [x EXCEPT !.req.flags = @ \ {"CF_AUTO_CONNECT"}]
    IN  IF TarpitWaits(x0.req, now)
        THEN [x |-> x0, ret |-> 0]
        ELSE LET x1 == [x0 EXCEPT !.txn.status = 500]
                 x2 == IF "CF_READ_ERROR" \notin x1.req.flags
                       THEN stream_int_retnclose(x1, 1) ELSE x1
             IN  [x |-> [x2 EXCEPT !.req.analysers = {},
                                   !.req.analyse_exp = 0],
                  ret |-> 0]

ReqConds ==
    [pol : {"none"}, need : {0}, match : {TRUE}]
    \cup [pol : {"if", "unless"}, need : {0}, match : BOOLEAN]

ReqRules ==
    {c @@ [action |-> a, hdr |-> "X"] :
        c \in ReqConds,
        a \in {"HTTP_REQ_ACT_ALLOW", "HTTP_REQ_ACT_DENY",
               "HTTP_REQ_ACT_TARPIT", "HTTP_REQ_ACT_AUTH",
               "HTTP_REQ_ACT_ADD_HDR", "HTTP_REQ_ACT_SET_HDR"}}

\* one rule, two rules
ReqRuleLists ==
    {<<r>> : r \in ReqRules} \cup {<<q, r>> : q \in ReqRules, r \in ReqRules}

Rule == hist.rule

InitRules ==
    /\ msg = InitMsg("RQBEFORE", -2)
    /\ first = InitMsg("RQBEFORE", -2)
    /\ idx = EmptyIdx
    /\ buf = <<>>
    /\ buf_p = 0
    /\ o = 0
    /\ stream = <<>>
    /\ ctx = NoFind
    /\ hist = NoHist
    /\ \E rules \in ReqRuleLists, t \in {0, 2} :
          backend = DefaultProxy @@ [http_req_rules |-> rules,
                                     timeout_tarpit |-> t]
    /\ s = [InitSession(DefaultProxy) EXCEPT
               !.txn.req.msg_state = "BODY",
               !.txn.status = 0,
               !.req = [flags |-> {}, o |-> 1, analyse_exp |-> 0,
                        analysers |-> {"AN_REQ_HTTP_PROCESS_FE",
                                       "AN_REQ_HTTP_XFER_BODY"}]]

\* the session is processed with the request headers parsed
ProcessReq ==
    /\ "AN_REQ_HTTP_PROCESS_FE" \in s.req.analysers
    /\ \E r \in {req_common_rules(s, backend, Rule.hdrs, Rule.now,
                                  "AN_REQ_HTTP_PROCESS_FE")} :
          /\ s' = r.x
          /\ hist' = [hist EXCEPT !.rule.ran = TRUE, !.rule.ret = r.ret,
                                  !.rule.rule = r.rule,
                                  !.rule.hdrs = r.hdrs]
    /\ UNCHANGED <<pvars, backend>>

\* the session is processed while it is tarpitted
Tarpit ==
    /\ "AN_REQ_HTTP_TARPIT" \in s.req.analysers
    /\ \E r \in {http_process_tarpit(s, Rule.now, "AN_REQ_HTTP_TARPIT")} :
          /\ s' = r.x
          /\ hist' = [hist EXCEPT
                         !.rule.pit = TRUE,
                         !.rule.expired =
                             tick_is_expired(s.req.analyse_exp, Rule.now),
                         !.rule.shutr = "CF_SHUTR" \in s.req.flags,
                         !.rule.err = "CF_READ_ERROR" \in s.req.flags,
                         !.rule.sent = r.x.rep.o > 0]
    /\ UNCHANGED <<pvars, backend>>

\* the client closes its side
RuleShutr ==
    /\ s.req.flags \cap {"CF_SHUTR", "CF_READ_ERROR"} = {}
    /\ s' = [s EXCEPT !.req.flags = @ \cup {"CF_SHUTR"}]
    /\ UNCHANGED <<pvars, backend, hist>>

\* reading from the client fails
RuleReadError ==
    /\ s.req.flags \cap {"CF_SHUTR", "CF_READ_ERROR"} = {}
    /\ s' = [s EXCEPT !.req.flags = @ \cup {"CF_READ_ERROR"}]
    /\ UNCHANGED <<pvars, backend, hist>>

\* time passes
RuleTick ==
    /\ Rule.now < MaxTime + 1
    /\ hist' = [hist EXCEPT !.rule.now = @ + 1]
    /\ UNCHANGED <<pvars, s, backend>>

NextRules == ProcessReq \/ Tarpit \/ RuleShutr \/ RuleReadError \/ RuleTick

SpecRules == InitRules /\ [][NextRules]_vars

\* the request is in the tarpit
Tarpitted == "AN_REQ_HTTP_TARPIT" \in s.req.analysers

\* a response was put in the response channel
Responded == s.rep.o > 0

\* C25 as stated: a tarpitted request receives no response before the
\* tarpit deadline expires; when the deadline is reached the client gets a
\* 500 response and request analysis ends.
C25_Tarpit ==
    /\ Tarpitted => ~Responded
    /\ Rule.pit /\ Rule.sent => Rule.expired
    /\ Rule.pit /\ Rule.expired =>
          Rule.sent /\ s.txn.status = 500 /\ s.req.analysers = {}

\* C25: a tarpitted request receives no response as long as its client is
\* there and the tarpit deadline has not expired.  When the tarpit analyser
\* runs with the deadline reached, or earlier with the client side closed,
\* the status is 500, request analysis ends, and the client gets the 500
\* response unless reading from it failed.
C25_TarpitClient ==
    /\ Tarpitted => ~Responded
    /\ Rule.pit /\ Rule.sent => Rule.expired \/ Rule.shutr
    /\ Rule.pit /\ ~Rule.expired /\ ~Rule.shutr /\ ~Rule.err =>
          Tarpitted /\ ~Responded /\ s.txn.status = 0
    /\ Rule.pit /\ (Rule.expired \/ Rule.shutr \/ Rule.err) =>
          /\ s.txn.status = 500
          /\ s.req.analysers = {}
          /\ Rule.sent <=> ~Rule.err

C25_Witness ==
    /\ Rule.pit /\ Rule.expired /\ ~Rule.shutr /\ ~Rule.err
    /\ Rule.sent /\ s.txn.status = 500 /\ s.req.analysers = {}
    /\ backend.timeout_tarpit = 2

\* the condition of rule <r> lets it act on the request
RuleApplies(r) ==
    \/ r.pol = "none"
    \/ r.pol = "if" /\ r.match
    \/ r.pol = "unless" /\ ~r.match

\* the rules of the proxy that act on the request and end the evaluation
Stoppers ==
    {k \in 1..Len(backend.http_req_rules) :
        /\ RuleApplies(backend.http_req_rules[k])
        /\ backend.http_req_rules[k].action \in
              {"HTTP_REQ_ACT_ALLOW", "HTTP_REQ_ACT_DENY",
               "HTTP_REQ_ACT_TARPIT", "HTTP_REQ_ACT_AUTH"}}

\* the first of them, 0 without one
FirstStopper ==
    IF Stoppers = {} THEN 0
    ELSE CHOOSE k \in Stoppers : \A j \in Stoppers : k <= j

FirstAction ==
    IF FirstStopper = 0 THEN "none"
    ELSE backend.http_req_rules[FirstStopper].action

\* C26: the http-request rules are evaluated in order and the evaluation
\* stops at the first rule that matches and is an allow or a deny.  After
\* an allow no later rule has any effect and the request passes to the next
\* analysers without a response; after a deny the request is blocked with a
\* 403 and request analysis ends.  The headers the rules wrote are those of
\* the rules before the one that stopped, in the order of the rules.
C26_FirstDecision ==
    Rule.ran =>
       /\ \A i \in 1..Len(Rule.hdrs) :
             /\ FirstStopper # 0 => Rule.hdrs[i].value < FirstStopper
             /\ RuleApplies(backend.http_req_rules[Rule.hdrs[i].value])
             /\ \A j \in 1..Len(Rule.hdrs) :
                   i < j => Rule.hdrs[i].value < Rule.hdrs[j].value
       /\ FirstAction = "HTTP_REQ_ACT_ALLOW" =>
             /\ Rule.ret = 1 /\ Rule.rule = 0
             /\ ~Responded /\ s.txn.status = 0
             /\ s.txn.flags \cap {"TX_CLDENY", "TX_CLTARPIT"} = {}
             /\ s.req.analysers = {"AN_REQ_HTTP_XFER_BODY"}
       /\ FirstAction = "HTTP_REQ_ACT_DENY" =>
             /\ Rule.ret = 0 /\ Rule.rule = FirstStopper
             /\ Responded /\ s.txn.status = 403
             /\ s.req.analysers = {}

C26_Witness ==
    /\ Rule.ran /\ Rule.ret = 1 /\ ~Responded
    /\ Len(backend.http_req_rules) = 2
    /\ backend.http_req_rules[1].action = "HTTP_REQ_ACT_ALLOW"
    /\ backend.http_req_rules[1].pol = "unless"
    /\ RuleApplies(backend.http_req_rules[1])
    /\ backend.http_req_rules[2].action = "HTTP_REQ_ACT_DENY"
    /\ RuleApplies(backend.http_req_rules[2])

(***************************************************************************)
(* Errors during a transaction.  The session starts with its request       *)
(* parsed and processed and the connection to the server established; the  *)
(* body analysers and the response analysers then run while either         *)
(* channel may get an error flag and either side may close.                *)
(***************************************************************************)
Err == hist.err

ErrFrontends ==
    {p \in Proxies : /\ p.options = {"PR_O_KEEPALIVE"}
                     /\ p.options2 = {}
                     /\ p.state = "PR_STREADY"}

ErrRequests ==
    {rq \in Requests :
        /\ rq.ver11 /\ rq.conn = {} /\ rq.te = "none"
        /\ \/ rq.meth = "GET" /\ ~rq.cl
           \/ rq.meth = "POST" /\ rq.cl}

ErrResponses ==
    {rp \in Responses :
        /\ rp.ver11 /\ rp.conn = {} /\ rp.te = "none"
        /\ \/ rp.status = 200 /\ rp.cl
           \/ rp.status = 100 /\ ~rp.cl}

\* the session of frontend <fe> once request <rq> went through the request
\* analysers and the server is connected
Established(fe, rq) ==
    LET s1 == http_wait_for_request(InitSession(fe), rq, "AN_REQ_WAIT_HTTP")
        s2 == http_process_req_common(s1, "AN_REQ_HTTP_PROCESS_FE")
        s3 == [s2 EXCEPT !.be = fe,
                         !.req.analysers =
                             (@ \ {"AN_REQ_SWITCHING_RULES"}) \cup
                             {"AN_REQ_HTTP_PROCESS_BE", "AN_REQ_HTTP_INNER"}]
        s4 == http_process_req_common(s3, "AN_REQ_HTTP_PROCESS_BE")
        s5 == http_process_request(s4, "AN_REQ_HTTP_INNER")
    IN  [s5 EXCEPT !.srv.state = "SI_ST_EST",
                   !.rep.analysers = @ \cup {"AN_RES_WAIT_HTTP",
                                             "AN_RES_HTTP_PROCESS_BE"}]

InitErrors ==
    /\ ParserIdle
    /\ \E fe \in ErrFrontends, rq \in ErrRequests :
          /\ s = Established(fe, rq)
          /\ backend = fe
          /\ hist = [NoHist EXCEPT !.rq = rq]

\* analyser <an> was called on channel <dir>, whose write error it looks at
\* when <looks>; it left session <y> and forwarded <f> of the response
Called(an, dir, looks, y, f) ==
    [fwd |-> f, an |-> an, fwd0 |-> Err.fwd, status0 |-> s.txn.status,
     werr |-> looks /\ "CF_WRITE_ERROR" \in s[dir].flags,
     msg |-> y.txn.status \in {400, 502, 504}
                /\ y.txn.status # s.txn.status]

ErrReqBody(more, fwd) ==
    /\ ReqNext = "AN_REQ_HTTP_XFER_BODY"
    /\ BodyInput(s.txn.req.msg_state, s.txn.req.flags, more, fwd)
    /\ \E r \in {http_request_forward_body(s, more, fwd)} :
           /\ s' = r.x
           /\ hist' = [hist EXCEPT
                          !.res = NoRes, !.sync = r.r,
                          !.err = Called("req_body", "req", TRUE, r.x,
                                         Err.fwd)]
    /\ UNCHANGED <<backend, pvars>>

ErrWaitRes(rp) ==
    /\ ResNext = "AN_RES_WAIT_HTTP"
    /\ rp # NoResponse => s.rep.flags \cap ({"CF_SHUTR"} \cup ErrorFlags) = {}
    /\ \E y \in {http_wait_for_response(s, rp, "AN_RES_WAIT_HTTP")} :
           /\ s' = y
           /\ hist' = [hist EXCEPT
                          !.rp = rp, !.res = NoRes, !.sync = NoSync,
                          !.err = Called("wait_res", "rep", rp = NoResponse,
                                         y, Err.fwd)]
    /\ UNCHANGED <<backend, pvars>>

ErrProcessRes ==
    /\ ResNext = "AN_RES_HTTP_PROCESS_BE"
    /\ ~Before(s.txn.rsp.msg_state, "BODY")
    /\ \E y \in {http_process_res_common(s, "AN_RES_HTTP_PROCESS_BE")} :
           /\ s' = y
           /\ hist' = [hist EXCEPT
                          !.res = [ran |-> TRUE, pre |-> s], !.sync = NoSync,
                          !.err = Called("process_res", "rep", FALSE, y,
                                         IF s.txn.status = 100
                                         THEN "interim" ELSE Err.fwd)]
    /\ UNCHANGED <<backend, pvars>>

\* http_response_forward_body forwards on this call
ResBodyForwards(fwd) ==
    /\ s.rep.flags \cap ErrorFlags = {}
    /\ ~("CF_SHUTW" \in s.rep.flags /\ s.rep.o > 0)
    /\ s.req.analysers # {}
    /\ s.txn.rsp.msg_state \in {"BODY", "DATA"}
    /\ fwd > 0

ErrResBody(more, fwd) ==
    /\ ResNext = "AN_RES_HTTP_XFER_BODY"
    /\ BodyInput(s.txn.rsp.msg_state, s.txn.rsp.flags, more, fwd)
    /\ \E r \in {http_response_forward_body(s, more, fwd)} :
           /\ s' = r.x
           /\ hist' = [hist EXCEPT
                          !.res = NoRes, !.sync = r.r,
                          !.err = Called("res_body", "rep", TRUE, r.x,
                                         IF ResBodyForwards(fwd)
                                         THEN "final" ELSE Err.fwd)]
    /\ UNCHANGED <<backend, pvars>>

\* a read or write on channel <dir> fails or times out, once in a session
ChannelError(dir) ==
    /\ s.req.analysers \cup s.rep.analysers # {}
    /\ (s.req.flags \cup s.rep.flags) \cap ErrorFlags = {}
    /\ \E f \in ErrorFlags : s' = [s EXCEPT ![dir].flags = @ \cup {f}]
    /\ UNCHANGED <<backend, hist, pvars>>

NextErrors ==
    \/ \E more \in BOOLEAN, fwd \in 0..1 : ErrReqBody(more, fwd)
    \/ \E rp \in ErrResponses \cup {NoResponse} : ErrWaitRes(rp)
    \/ ErrProcessRes
    \/ \E more \in BOOLEAN, fwd \in 0..1 : ErrResBody(more, fwd)
    \/ \E dir \in {"req", "rep"} : ChannelError(dir)
    \/ \E dir \in {"req", "rep"} : Drain(dir)
    \/ \E dir \in {"req", "rep"} : Shutw(dir)
    \/ \E dir \in {"req", "rep"} : Shutr(dir)
    \/ \E dir \in {"req", "rep"} : ForwardClose(dir)
    \/ ServerClose
    \/ ClientClose

SpecErrors == InitErrors /\ [][NextErrors]_vars

\* the last call of an analyser ended a message in error
Aborted ==
    /\ Err.an # "none"
    /\ "ERROR" \in {s.txn.req.msg_state, s.txn.rsp.msg_state}

C28_WriteError ==
    Err.werr => s.req.analysers = {} /\ s.rep.analysers = {}

\* C28: a body forwarding analyser that observes a write error on its
\* channel clears the analysers of both channels, forwards nothing and
\* sends no message; http_wait_for_response, when it gets to the write
\* error of the response channel, clears the analysers of the response
\* channel and sends no message.
C28_WriteErrorBody ==
    /\ Err.werr /\ Err.an \in {"req_body", "res_body"} =>
          /\ s.req.analysers = {} /\ s.rep.analysers = {}
          /\ Err.fwd = Err.fwd0 /\ ~Err.msg
    /\ Err.werr /\ Err.an = "wait_res"
         /\ s.rep.flags \cap {"CF_SHUTR", "CF_SHUTR_NOW"} = {} =>
          s.rep.analysers = {} /\ ~Err.msg

C28_Witness ==
    /\ Err.werr /\ Err.an = "res_body" /\ Err.fwd0 = "final"
    /\ "CF_WRITE_ERROR" \in s.rep.flags
    /\ s.req.analysers = {} /\ s.rep.analysers = {}

(***************************************************************************)
(* http_wait_for_request on a client that fails: a read error, a read      *)
(* timeout or a close while a request is awaited.  No http-request and no  *)
(* keep-alive timeout is configured, so that req->analyse_exp stays unset  *)
(* and a timeout is reported by CF_READ_TIMEOUT.                           *)
(***************************************************************************)
\* the connection is given up with a 400
NextReqFailedLoud(x) ==
    [x |-> stream_int_retnclose([FailedKeepAlive(x) EXCEPT
                                    !.txn.status = 400], 1),
     st |-> "RQBEFORE", sent |-> 400, decision |-> "failed_keep_alive"]

\* failed_keep_alive of http_wait_for_request
NextReqFailed(x) ==
    [x |-> stream_int_retnclose(FailedKeepAlive(x), 0),
     st |-> "RQBEFORE", sent |-> 0, decision |-> "failed_keep_alive"]

\* the aborts of http_wait_for_request on the first request: status <code>,
\* with its error message when <len> is not zero
FirstReqAbort(x, code, len) ==
    [x |-> [stream_int_retnclose([x EXCEPT !.txn.status = code], len)
               EXCEPT !.txn.req.msg_state = "ERROR",
                      !.req.analysers = {}],
     st |-> "ERROR", sent |-> IF len > 0 THEN code ELSE 0,
     decision |-> "abort"]

\* http_wait_for_request on a request that is neither complete nor invalid,
\* the parser having left the message in state <st>
WaitMore(x, st) ==
    LET wnr == "TX_WAIT_NEXT_RQ" \in x.txn.flags
    IN  IF "CF_READ_ERROR" \in x.req.flags
        THEN IF wnr THEN NextReqFailed(x) ELSE FirstReqAbort(x, 400, 0)
        ELSE IF "CF_READ_TIMEOUT" \in x.req.flags
        THEN IF wnr THEN NextReqFailed(x) ELSE FirstReqAbort(x, 408, 1)
        ELSE IF "CF_SHUTR" \in x.req.flags
        THEN IF wnr THEN NextReqFailed(x) ELSE FirstReqAbort(x, 400, 1)
        ELSE [x |-> [x EXCEPT
                        !.req.flags = (@ \ {"CF_AUTO_CONNECT"})
                                          \cup {"CF_READ_DONTWAIT"},
                        !.rep.flags = @ \ {"CF_EXPECT_MORE"},
                        !.txn.flags = IF st # "RQBEFORE"
                                      THEN @ \ {"TX_WAIT_NEXT_RQ"} ELSE @],
              st |-> st, sent |-> 0, decision |-> "more"]

\* http_wait_for_request: the result of WaitParse with the session the
\* analyser leaves and the status of the error message it sent
WaitRequest(x, m, i, b, out, bp) ==
    The({ IF r.w.decision = "more"
          THEN The({ [r EXCEPT !.x = e.x, !.m.msg_state = e.st,
                               !.w.decision = e.decision]
                        @@ [sent |-> e.sent]
                     : e \in {WaitMore(r.x, r.m.msg_state)} })
          ELSE IF r.w.decision = "bad_req"
          THEN [r EXCEPT !.x = stream_int_retnclose(r.x, 1)]
                  @@ [sent |-> 400]
          ELSE IF r.w.decision = "failed_keep_alive"
          THEN [r EXCEPT !.x = stream_int_retnclose(r.x, 0)] @@ [sent |-> 0]
          ELSE r @@ [sent |-> 0]
          : r \in {WaitParse(x, m, i, b, out, bp)} })

Nreq == hist.nreq

\* the failure of the client side the analyser is called with
Failure(x) ==
    IF "CF_READ_ERROR" \in x.req.flags THEN "CF_READ_ERROR"
    ELSE IF "CF_READ_TIMEOUT" \in x.req.flags THEN "CF_READ_TIMEOUT"
    ELSE IF "CF_SHUTR" \in x.req.flags THEN "CF_SHUTR"
    ELSE "none"

\* the analyser is called on the session <x> and the input <b>
NrAnalyse(x, m, b, out, bp) ==
    \E r \in {IF m.msg_state = "BODY"
              THEN [x |-> x, m |-> m, idx |-> idx, buf |-> b, p |-> bp,
                    w |-> NoWait, sent |-> 0]
              ELSE WaitRequest(x, m, idx, b, out, bp)} :
       /\ s' = r.x
       /\ msg' = r.m
       /\ idx' = r.idx
       /\ buf' = r.buf
       /\ buf_p' = r.p
       /\ hist' = [hist EXCEPT
                       !.wait = [r.w EXCEPT !.before = hist.wait.decision],
                       !.nreq = [ran |-> TRUE, sent |-> r.sent,
                                 got |-> Len(b),
                                 nf |-> "TX_NOT_FIRST" \in x.txn.flags,
                                 fail |-> Failure(x),
                                 decision |-> r.w.decision]]

NrRequest == <<"G", "SP", "/", "SP", "H", "LF", "LF">>

\* a read delivers the next <n> bytes of the client, then the analyser runs
NrRecv(n) ==
    /\ s.req.analysers # {}
    /\ Failure(s) = "none"
    /\ n <= bi_avail(buf, o)
    /\ Len(stream) + n <= 2 * Len(NrRequest)
    /\ stream' = SubSeq(Repeat(NrRequest, 2), 1, Len(stream) + n)
    /\ NrAnalyse(s, msg, buf \o SubSeq(stream', Len(stream) + 1,
                                       Len(stream')), o, buf_p)
    /\ UNCHANGED <<o, first, ctx, backend>>

\* the client side fails with <f>, then the analyser runs
NrFail(f) ==
    /\ s.req.analysers # {}
    /\ Failure(s) = "none"
    /\ NrAnalyse([s EXCEPT !.req.flags = @ \cup {f}], msg, buf, o, buf_p)
    /\ UNCHANGED <<o, stream, first, ctx, backend>>

\* the pending output of the response buffer leaves, the analyser runs
NrFlushRep ==
    /\ s.rep.o > 0
    /\ s.req.analysers # {}
    /\ NrAnalyse([s EXCEPT !.rep.o = 0], msg, buf, o, buf_p)
    /\ UNCHANGED <<o, stream, first, ctx, backend>>

\* the pending output of the request buffer leaves, the analyser runs
NrFlushReq ==
    /\ o > 0
    /\ s.req.analysers # {}
    /\ o' = 0
    /\ NrAnalyse(s, msg, buf, 0, buf_p)
    /\ UNCHANGED <<stream, first, ctx, backend>>

\* the complete request is forwarded and answered, <left> bytes of it and
\* <rsp> bytes of the response are still pending when the transaction ends
\* (http_end_txn_clean_session); the analyser then runs on what follows
NrNext(left, rsp) ==
    /\ msg.msg_state = "BODY"
    /\ s.req.analysers # {}
    /\ o' = left
    /\ NrAnalyse([http_end_txn_clean_session(s) EXCEPT !.rep.o = rsp],
                 InitMsg("RQBEFORE", -2),
                 SubSeq(buf, msg.next + 1, Len(buf)), left,
                 b_ptr(buf_p, msg.next))
    /\ UNCHANGED <<stream, first, ctx, backend>>

NextNextReq ==
    \/ \E n \in 1..MaxPiece : NrRecv(n)
    \/ \E f \in {"CF_READ_ERROR", "CF_READ_TIMEOUT", "CF_SHUTR"} : NrFail(f)
    \/ NrFlushRep
    \/ NrFlushReq
    \/ \E left \in 0..1, rsp \in 0..1 : NrNext(left, rsp)

SpecNextReq == InitMargin /\ [][NextNextReq]_vars

\* C29: when http_wait_for_request is called with a read error on a
\* request that is not the first one of its connection and of which no
\* byte was received, it sends no response; unless it still waits for the
\* previous response to leave, it ends the request analysis and closes the
\* connection with no status and no message in error.
C29_SilentClose ==
    Nreq.ran /\ Nreq.fail = "CF_READ_ERROR" /\ Nreq.nf /\ Nreq.got = 0 =>
       /\ Nreq.sent = 0
       /\ Nreq.decision \in {"failed_keep_alive", "wait"}
       /\ Nreq.decision = "failed_keep_alive" =>
             /\ s.req.analysers = {}
             /\ s.txn.status = 0
             /\ s.txn.req.msg_state = "RQBEFORE"
             /\ {"CF_SHUTR_NOW", "CF_SHUTW_NOW"} \subseteq s.req.flags

C29_Witness ==
    /\ Nreq.ran /\ Nreq.fail = "CF_READ_ERROR" /\ Nreq.nf /\ Nreq.got = 0
    /\ Nreq.decision = "failed_keep_alive" /\ Nreq.sent = 0
    /\ s.req.analysers = {}

(***************************************************************************)
(* The PROXY protocol handshake of an accepted connection.  The socket is  *)
(* the sequence of the bytes that arrived and were not taken yet; a        *)
(* position in the peeked bytes is counted from 1, so that <end> is one    *)
(* more than their number.  An IPv4 address is kept as the text            *)
(* inetaddr_host_lim_ret went over, an IPv6 address as the text given to   *)
(* inet_pton.                                                              *)
(***************************************************************************)
PpDigits == {"1", "2", "4", "6"}

DigitValue(c) ==
    CASE c = "1" -> 1 [] c = "2" -> 2 [] c = "4" -> 4 [] c = "6" -> 6

\* read_uint: the number at position <k> of <b>, and where it ends
RECURSIVE read_uint(_, _, _)
read_uint(b, k, v) ==
    IF k <= Len(b) /\ b[k] \in PpDigits
    THEN read_uint(b, k + 1, v * 10 + DigitValue(b[k]))
    ELSE [v |-> v, k |-> k]

\* inetaddr_host_lim_ret: the address at position <k> of <b>, and where it
\* ends
RECURSIVE inetaddr_host_lim_ret(_, _, _)
inetaddr_host_lim_ret(b, k, v) ==
    IF k <= Len(b) /\ b[k] \in PpDigits \cup {"."}
    THEN inetaddr_host_lim_ret(b, k + 1, Append(v, b[k]))
    ELSE [v |-> v, k |-> k]

\* inet_pton(AF_INET6, ...) accepts the text
inet_pton(t) == t # <<>> /\ \A k \in 1..Len(t) : t[k] \in PpDigits \cup {":"}

\* the fields of <t> that spaces separate
RECURSIVE Fields(_, _, _)
Fields(t, k, cur) ==
    IF k > Len(t) THEN <<cur>>
    ELSE IF t[k] = "SP" THEN <<cur>> \o Fields(t, k + 1, <<>>)
    ELSE Fields(t, k + 1, Append(cur, t[k]))

\* the position of the first CR of <b> from <k> on that the loop of the
\* TCP6 branch reaches before it runs out of data, 0 for missing
RECURSIVE FindCr(_, _)
FindCr(b, k) ==
    IF k > Len(b) - 1 THEN 0
    ELSE IF b[k] = "CR" THEN k
    ELSE FindCr(b, k + 1)

\* the outcome of the decoding of the peeked bytes <b>: "missing", "fail",
\* or "ok" with the addresses and the length of the line
PpNo(v) == [v |-> v, from |-> <<>>, to |-> <<>>, len |-> 0]

\* the TCP4 branch, from position 12
PpTcp4(b) ==
    The({ IF src.k = Len(b) + 1 THEN PpNo("missing")
          ELSE IF b[src.k] # "SP" THEN PpNo("fail")
          ELSE The({
            IF dst.k = Len(b) + 1 THEN PpNo("missing")
            ELSE IF b[dst.k] # "SP" THEN PpNo("fail")
            ELSE The({
              IF sp.k = Len(b) + 1 THEN PpNo("missing")
              ELSE IF b[sp.k] # "SP" THEN PpNo("fail")
              ELSE The({
                IF dp.k > Len(b) - 1 THEN PpNo("missing")
                ELSE IF b[dp.k] # "CR" THEN PpNo("fail")
                ELSE IF b[dp.k + 1] # "LF" THEN PpNo("fail")
                ELSE [v |-> "ok", from |-> <<src.v, sp.v>>,
                      to |-> <<dst.v, dp.v>>, len |-> dp.k + 1]
                : dp \in {read_uint(b, sp.k + 1, 0)} })
              : sp \in {read_uint(b, dst.k + 1, 0)} })
            : dst \in {inetaddr_host_lim_ret(b, src.k + 1, <<>>)} })
          : src \in {inetaddr_host_lim_ret(b, 12, <<>>)} })

\* the whole of <t> is a number
IsUint(t) == \A k \in 1..Len(t) : t[k] \in PpDigits

\* the TCP6 branch, from position 12
PpTcp6(b) ==
    The({ IF cr = 0 THEN PpNo("missing")
          ELSE IF b[cr + 1] # "LF" THEN PpNo("fail")
          ELSE The({
            IF Len(f) < 4 THEN PpNo("fail")
            ELSE IF ~IsUint(f[3]) \/ ~IsUint(f[4]) THEN PpNo("fail")
            ELSE IF ~inet_pton(f[1]) \/ ~inet_pton(f[2]) THEN PpNo("fail")
            ELSE [v |-> "ok", from |-> <<f[1], read_uint(f[3], 1, 0).v>>,
                  to |-> <<f[2], read_uint(f[4], 1, 0).v>>, len |-> cr + 1]
            : f \in {Fields(SubSeq(b, 12, cr - 1), 1, <<>>)} })
          : cr \in {FindCr(b, 12)} })

PpDecode(b) ==
    IF Len(b) < 6 THEN PpNo("missing")
    ELSE IF SubSeq(b, 1, 6) # <<"P", "R", "O", "X", "Y", "SP">>
    THEN PpNo("fail")
    ELSE IF Len(b) < 18 THEN PpNo("missing")
    ELSE IF SubSeq(b, 7, 11) = <<"T", "C", "P", "4", "SP">> THEN PpTcp4(b)
    ELSE IF SubSeq(b, 7, 11) = <<"T", "C", "P", "6", "SP">> THEN PpTcp6(b)
    ELSE PpNo("fail")

\* fail: of conn_recv_proxy
PpFail(conn, flag) ==
    [conn EXCEPT !.flags = (@ \cup {"CO_FL_ERROR"})
                               \ {flag, "CO_FL_SOCK_RD_ENA",
                                  "CO_FL_SOCK_WR_ENA"}]

\* with missing data the handshake polls again
PpMissingPolls(conn, flag) ==
    [conn EXCEPT !.flags = @ \cup {"CO_FL_WAIT_RD"}]

\* missing: of conn_recv_proxy, which goes on into fail:
PpMissing(conn, flag) == PpFail(conn, flag)

\* conn_recv_proxy on the socket <sock>; returns the connection, the socket
\* and what the function returns
conn_recv_proxy(conn, sock, flag) ==
    IF "CO_FL_SOCK_RD_SH" \in conn.flags
    THEN [conn |-> PpFail(conn, flag), sock |-> sock, ret |-> 0]
    ELSE IF sock = <<>>
    THEN [conn |-> [conn EXCEPT !.flags = @ \cup {"CO_FL_WAIT_RD"}],
          sock |-> sock, ret |-> 0]
    ELSE The({
      IF d.v = "missing"
      THEN [conn |-> PpMissing(conn, flag), sock |-> sock, ret |-> 0]
      ELSE IF d.v = "fail"
      THEN [conn |-> PpFail(conn, flag), sock |-> sock, ret |-> 0]
      ELSE [conn |-> [conn EXCEPT
                         !.addr = [from |-> d.from, to |-> d.to],
                         !.flags = (@ \cup {"CO_FL_ADDR_FROM_SET",
                                            "CO_FL_ADDR_TO_SET"}) \ {flag}],
            sock |-> SubSeq(sock, d.len + 1, Len(sock)), ret |-> 1]
      : d \in {PpDecode(sock)} })

PpHead == <<"P", "R", "O", "X", "Y", "SP", "T", "C", "P">>

\* the line that announces <from> and <to> for family <fam>
proxy_line(fam, from, to) ==
    PpHead \o <<fam, "SP">> \o from[1] \o <<"SP">> \o to[1] \o <<"SP">>
        \o from[2] \o <<"SP">> \o to[2] \o <<"CR", "LF">>

PpRequest == <<"G", "LF">>

\* what a peer may send: a line with its addresses as text, followed by
\* the start of a request; <ok> tells whether the line is valid
PpWires ==
    { [fam |-> "4", from |-> << <<"1", ".", "2">>, <<"1">> >>,
       to |-> << <<"2", ".", "1">>, <<"2", "6">> >>, ok |-> TRUE],
      [fam |-> "4", from |-> << <<"4">>, <<"6">> >>,
       to |-> << <<"6">>, <<"4", "2">> >>, ok |-> TRUE],
      [fam |-> "6", from |-> << <<":", ":", "1">>, <<"1", "2">> >>,
       to |-> << <<"2", ":", ":">>, <<"6">> >>, ok |-> TRUE],
      [fam |-> "4", from |-> << <<"1", ".", "2">>, <<"1">> >>,
       to |-> << <<"2", ":", "1">>, <<"2", "6">> >>, ok |-> FALSE],
      [fam |-> "6", from |-> << <<":", ":", "1">>, <<"1", "G">> >>,
       to |-> << <<"2", ":", ":">>, <<"6">> >>, ok |-> FALSE] }

Pp == hist.pp

InitProxy ==
    /\ msg = InitMsg("RQBEFORE", -2)
    /\ first = InitMsg("RQBEFORE", -2)
    /\ idx = EmptyIdx
    /\ buf = <<>>
    /\ buf_p = 0
    /\ o = 0
    /\ stream = <<>>
    /\ ctx = NoFind
    /\ backend = DefaultProxy
    /\ s = [conn |-> [flags |-> {"CO_FL_ACCEPT_PROXY", "CO_FL_SOCK_RD_ENA"},
                      addr |-> [from |-> <<>>, to |-> <<>>]]]
    /\ \E w \in PpWires :
          hist = [NoHist EXCEPT
                     !.pp.wire = proxy_line(w.fam, w.from, w.to)
                                     \o PpRequest,
                     !.pp.line = IF w.ok
                                 THEN Len(proxy_line(w.fam, w.from, w.to))
                                 ELSE 0,
                     !.pp.expect =
                         IF w.ok
                         THEN << <<w.from[1], read_uint(w.from[2], 1, 0).v>>,
                                 <<w.to[1], read_uint(w.to[2], 1, 0).v>> >>
                         ELSE <<>>]

\* the next <n> bytes of the peer arrive
PpArrive(n) ==
    /\ "CO_FL_SOCK_RD_SH" \notin s.conn.flags
    /\ Len(stream) + n <= Len(Pp.wire)
    /\ stream' = SubSeq(Pp.wire, 1, Len(stream) + n)
    /\ buf' = buf \o SubSeq(Pp.wire, Len(stream) + 1, Len(stream) + n)
    /\ hist' = [hist EXCEPT !.pp.pieces = IF @ < MaxPiece THEN @ + 1 ELSE @]
    /\ UNCHANGED <<msg, idx, buf_p, o, first, ctx, s, backend>>

\* the peer shuts its side
PpShut ==
    /\ "CO_FL_SOCK_RD_SH" \notin s.conn.flags
    /\ s' = [s EXCEPT !.conn.flags = @ \cup {"CO_FL_SOCK_RD_SH"}]
    /\ UNCHANGED <<pvars, backend, hist>>

\* the handshake is tried
PpRecv ==
    /\ "CO_FL_ACCEPT_PROXY" \in s.conn.flags
    /\ \E r \in {conn_recv_proxy(s.conn, buf, "CO_FL_ACCEPT_PROXY")} :
          /\ s' = [s EXCEPT !.conn = r.conn]
          /\ buf' = r.sock
          /\ hist' = [hist EXCEPT
                         !.pp.ran = TRUE, !.pp.peeked = Len(buf),
                         !.pp.ret = r.ret,
                         !.pp.consumed =
                             @ \o SubSeq(buf, 1, Len(buf) - Len(r.sock))]
    /\ UNCHANGED <<msg, idx, buf_p, o, stream, first, ctx, backend>>

NextProxy == (\E n \in 1..Len(Pp.wire) : PpArrive(n)) \/ PpShut \/ PpRecv

SpecProxy == InitProxy /\ [][NextProxy]_vars

\* the handshake is over
PpOver == "CO_FL_ACCEPT_PROXY" \notin s.conn.flags

PpFailed == "CO_FL_ERROR" \in s.conn.flags

\* the addresses of the connection are those the line announces
PpAddresses ==
    /\ {"CO_FL_ADDR_FROM_SET", "CO_FL_ADDR_TO_SET"} \subseteq s.conn.flags
    /\ <<s.conn.addr.from, s.conn.addr.to>> = Pp.expect

\* C30 as stated: if the PROXY line arrives in several pieces, the receiver
\* consumes nothing until the whole line can be peeked and then consumes
\* exactly the line; the handshake ends with the same addresses as if the
\* line had arrived at once and no byte of the following request is lost.
C30_Pieces ==
    /\ stream = Pp.consumed \o buf
    /\ Pp.consumed # <<>> => Pp.consumed = SubSeq(Pp.wire, 1, Pp.line)
    /\ PpOver /\ Pp.line > 0 /\ Len(stream) >= Pp.line =>
          ~PpFailed /\ PpAddresses /\ Pp.consumed = SubSeq(Pp.wire, 1, Pp.line)

\* C30: the receiver takes nothing from the socket unless the whole PROXY
\* line can be peeked, and then takes exactly the line: the addresses are
\* those the line announces and no byte of the following request is lost.
\* It does not wait for a line that arrives in several pieces: called with
\* a part of the line (at least one byte) it takes nothing and fails the
\* connection; it only waits when nothing has arrived.
C30_PeekExact ==
    /\ stream = Pp.consumed \o buf
    /\ Pp.consumed # <<>> =>
          /\ Pp.line > 0 /\ Pp.consumed = SubSeq(Pp.wire, 1, Pp.line)
          /\ PpOver /\ ~PpFailed /\ PpAddresses
    /\ PpOver /\ ~PpFailed =>
          PpAddresses /\ Pp.consumed = SubSeq(Pp.wire, 1, Pp.line)
    /\ Pp.ran /\ Pp.peeked > 0 /\ (Pp.line = 0 \/ Pp.peeked < Pp.line) =>
          PpOver /\ PpFailed /\ Pp.ret = 0 /\ Pp.consumed = <<>>
    /\ Pp.ran /\ Pp.peeked = 0 /\ "CO_FL_SOCK_RD_SH" \notin s.conn.flags =>
          ~PpOver /\ ~PpFailed

C30_Witness ==
    /\ PpOver /\ ~PpFailed /\ PpAddresses
    /\ Pp.pieces >= 2
    /\ Pp.consumed = SubSeq(Pp.wire, 1, Pp.line)
    /\ buf = PpRequest

(***************************************************************************)
(* The addresses of the client connection after the handshake: the calls   *)
(* of conn_get_from_addr and conn_get_to_addr by frontend_accept and by    *)
(* http_process_request.  The socket has its own addresses, which          *)
(* getpeername and getsockname give, unless they fail.                      *)
(***************************************************************************)
SockFrom == << <<"9">>, 9 >>

SockTo == << <<"8">>, 8 >>

\* conn_get_from_addr without the test of CO_FL_ADDR_FROM_SET
conn_get_from_addr_always(conn, got) ==
    IF ~got THEN conn
    ELSE [conn EXCEPT !.addr.from = SockFrom,
                      !.flags = @ \cup {"CO_FL_ADDR_FROM_SET"}]

\* conn_get_from_addr; <got> tells that get_src succeeds
conn_get_from_addr(conn, got) ==
    IF "CO_FL_ADDR_FROM_SET" \in conn.flags THEN conn
    ELSE IF ~got THEN conn
    ELSE [conn EXCEPT !.addr.from = SockFrom,
                      !.flags = @ \cup {"CO_FL_ADDR_FROM_SET"}]

\* conn_get_to_addr; <got> tells that get_dst succeeds
conn_get_to_addr(conn, got) ==
    IF "CO_FL_ADDR_TO_SET" \in conn.flags THEN conn
    ELSE IF ~got THEN conn
    ELSE [conn EXCEPT !.addr.to = SockTo,
                      !.flags = @ \cup {"CO_FL_ADDR_TO_SET"}]

\* frontend_accept of a frontend that logs the connection (<log>, with no
\* log format) or not, in debug mode (<debug>) or not: what becomes of the
\* connection
frontend_accept(conn, log, debug, got) ==
    The({ IF debug THEN conn_get_from_addr(c, got) ELSE c
          : c \in { IF log
                    THEN conn_get_to_addr(conn_get_from_addr(conn, got), got)
                    ELSE conn } })

\* the session is accepted
PpAccept(log, debug, got) ==
    /\ ~Pp.accepted
    /\ s' = [s EXCEPT !.conn = frontend_accept(s.conn, log, debug, got)]
    /\ hist' = [hist EXCEPT !.pp.accepted = TRUE]
    /\ UNCHANGED <<pvars, backend>>

\* an HTTP request is processed by http_process_request, with "option
\* forwardfor" and "option originalto": it reads the source of the
\* connection and, after conn_get_to_addr, its destination
PpProcessRequest(got) ==
    /\ Pp.accepted /\ "CO_FL_ACCEPT_PROXY" \notin s.conn.flags
    /\ "CO_FL_ERROR" \notin s.conn.flags
    /\ \E c \in {conn_get_to_addr(s.conn, got)} :
          /\ s' = [s EXCEPT !.conn = c]
          /\ hist' = [hist EXCEPT
                         !.pp.seen = @ \cup {<<c.addr.from, c.addr.to>>}]
    /\ UNCHANGED <<pvars, backend>>

NextAddr ==
    \/ \E n \in 1..Len(Pp.wire) : PpArrive(n)
    \/ PpShut
    \/ PpRecv
    \/ \E log \in BOOLEAN, debug \in BOOLEAN, got \in BOOLEAN :
          PpAccept(log, debug, got)
    \/ \E got \in BOOLEAN : PpProcessRequest(got)

SpecAddr == InitProxy /\ [][NextAddr]_vars

\* the peer sends a valid TCP4 line
PpTcp4Line == Pp.line > 0 /\ Pp.wire[10] = "4"

\* C31: after a valid 'PROXY TCP4 src dst sport dport' line, every HTTP
\* analyser sees the announced source and destination as the addresses of
\* the connection: they are set before any HTTP processing and the
\* addresses of the socket do not replace them later.
C31_Announced ==
    PpTcp4Line =>
       /\ Pp.seen \subseteq {Pp.expect}
       /\ "CO_FL_ACCEPT_PROXY" \notin s.conn.flags
             /\ "CO_FL_ERROR" \notin s.conn.flags
             => <<s.conn.addr.from, s.conn.addr.to>> = Pp.expect

C31_Witness ==
    /\ PpTcp4Line /\ Pp.seen = {Pp.expect} /\ Pp.accepted
    /\ {"CO_FL_ADDR_FROM_SET", "CO_FL_ADDR_TO_SET"} \subseteq s.conn.flags
    /\ buf = PpRequest

(***************************************************************************)
(* The lines a PROXY protocol emitter may send: make_proxy_line writes     *)
(* "PROXY UNKNOWN" and CRLF for an address family that is neither IPv4 nor  *)
(* IPv6.                                                                   *)
(***************************************************************************)
PpUnknown ==
    <<"P", "R", "O", "X", "Y", "SP", "U", "N", "K", "N", "O", "W", "N">>

\* well-formed lines with each protocol token
PpLines ==
    { proxy_line("4", << <<"1", ".", "2">>, <<"1">> >>,
                 << <<"2", ".", "1">>, <<"2", "6">> >>),
      proxy_line("6", << <<":", ":", "1">>, <<"1", "2">> >>,
                 << <<"2", ":", ":">>, <<"6">> >>),
      PpUnknown \o <<"CR", "LF">>,
      PpUnknown \o <<"SP", "1", ".", "2", "SP", "2", ".", "1", "SP", "1",
                     "SP", "2", "6", "CR", "LF">> }

InitUnknown ==
    /\ msg = InitMsg("RQBEFORE", -2)
    /\ first = InitMsg("RQBEFORE", -2)
    /\ idx = EmptyIdx
    /\ buf = <<>>
    /\ buf_p = 0
    /\ o = 0
    /\ stream = <<>>
    /\ ctx = NoFind
    /\ backend = DefaultProxy
    /\ s = [conn |-> [flags |-> {"CO_FL_ACCEPT_PROXY", "CO_FL_SOCK_RD_ENA"},
                      addr |-> [from |-> <<>>, to |-> <<>>]]]
    /\ \E l \in PpLines :
          hist = [NoHist EXCEPT !.pp.wire = l \o PpRequest,
                                !.pp.line = Len(l)]

SpecUnknown == InitUnknown /\ [][NextProxy]_vars

\* the token of the line of the peer is UNKNOWN
PpIsUnknown == SubSeq(Pp.wire, 7, 13) = SubSeq(PpUnknown, 7, 13)

\* conn_recv_proxy was called when the whole line could be peeked, on a
\* connection that the peer has not shut
PpWholePeeked ==
    /\ Pp.ran /\ Pp.peeked >= Pp.line
    /\ "CO_FL_SOCK_RD_SH" \notin s.conn.flags

\* C32: the PROXY receiver accepts every well-formed line whose protocol
\* token is TCP4, TCP6 or UNKNOWN; a line 'PROXY UNKNOWN' followed by CRLF
\* completes the handshake without error.
C32_Accepts ==
    PpWholePeeked =>
       /\ Pp.ret = 1
       /\ "CO_FL_ERROR" \notin s.conn.flags
       /\ "CO_FL_ACCEPT_PROXY" \notin s.conn.flags
       /\ Pp.consumed = SubSeq(Pp.wire, 1, Pp.line)

\* what the code does: it accepts the lines with TCP4 and TCP6, and fails
\* the connection on a line with UNKNOWN, of which it takes nothing
C32_AcceptsTcp ==
    PpWholePeeked =>
       IF PpIsUnknown
       THEN /\ Pp.ret = 0 /\ "CO_FL_ERROR" \in s.conn.flags
            /\ Pp.consumed = <<>>
       ELSE /\ Pp.ret = 1 /\ "CO_FL_ERROR" \notin s.conn.flags
            /\ Pp.consumed = SubSeq(Pp.wire, 1, Pp.line)

(***************************************************************************)
(* The stats page: http_handle_stats, called by http_process_req_common    *)
(* for a request whose URI is the one of the stats page.  The request      *)
(* buffer holds the headers, which end at <eoh> + 2, then the bytes of the *)
(* body received so far.  The value of Expect is compared as strncasecmp    *)
(* does, on lower-case letters.                                            *)
(***************************************************************************)
Stats == hist.stats

LowerCase(v) == IF v = "100-Continue" THEN "100-continue" ELSE v

\* the Expect header asks for an interim response
ExpectsContinue(v) == v # "" /\ LowerCase(v) = "100-continue"

\* http_process_req_stat_post: [ret, st_code]; <i> is the number of bytes
\* in the buffer and <st> the status the parameters of the body lead to
http_process_req_stat_post(m, i, st) ==
    IF m.eoh + 2 + m.body_len >= BufSize - MaxRewrite
    THEN [ret |-> 1, st_code |-> "STAT_STATUS_EXCD"]
    ELSE IF m.eoh + 2 + m.body_len > i
    THEN [ret |-> 0, st_code |-> "STAT_STATUS_NONE"]
    ELSE [ret |-> 1, st_code |-> st]

\* the interim response is due at every call
ContinueDueAlways(st) == TRUE

\* the interim response is still due
ContinueDue(st) == Before(st, "100_SENT")

\* bo_inject of one message into the response channel
bo_inject(chn) == Forward(chn, 1)

\* the end of http_handle_stats for a POST: the redirect
StatsRedirect(x) ==
    [stream_int_retnclose(x, 1)
        EXCEPT !.txn.status = 303, !.req.analysers = {}]

\* the call injects the interim response
StatsContinue(x, expect) ==
    /\ ContinueDue(x.txn.req.msg_state)
    /\ "HTTP_MSGF_VER_11" \in x.txn.req.flags
    /\ ExpectsContinue(expect)

\* http_handle_stats: [x, ret, sent, parsed], where <sent> are the
\* responses it puts in the response channel
http_handle_stats(x, m, admin, expect, i, st) ==
    IF x.txn.meth = "POST"
    THEN IF admin
         THEN The({ IF p.ret = 0
                    THEN [x |-> [y EXCEPT !.stats.st_code = p.st_code],
                          ret |-> 0, parsed |-> FALSE,
                          sent |-> IF StatsContinue(x, expect)
                                   THEN <<"100">> ELSE <<>>]
                    ELSE [x |-> StatsRedirect(
                                   [y EXCEPT !.stats.st_code = p.st_code]),
                          ret |-> 1, parsed |-> TRUE,
                          sent |-> (IF StatsContinue(x, expect)
                                    THEN <<"100">> ELSE <<>>) \o <<"303">>]
                    : y \in { IF ContinueDue(x.txn.req.msg_state)
                              THEN [x EXCEPT
                                      !.stats.flags = @ \cup {"STAT_ADMIN"},
                                      !.txn.req.msg_state = "100_SENT",
                                      !.rep =
                                         IF StatsContinue(x, expect)
                                         THEN bo_inject(@) ELSE @]
                              ELSE [x EXCEPT
                                      !.stats.flags = @ \cup {"STAT_ADMIN"}]
                            },
                      p \in {http_process_req_stat_post(m, i, st)} })
         ELSE [x |-> StatsRedirect(
                        [x EXCEPT !.stats.st_code = "STAT_STATUS_DENY"]),
               ret |-> 1, parsed |-> FALSE, sent |-> <<"303">>]
    ELSE IF x.txn.meth = "HEAD"
    THEN [x |-> [stream_int_retnclose(
                    [x EXCEPT !.stats.flags =
                                 IF admin THEN @ \cup {"STAT_ADMIN"} ELSE @],
                    1)
                   EXCEPT !.txn.status = 200, !.req.analysers = {}],
          ret |-> 1, parsed |-> FALSE, sent |-> <<"200">>]
    ELSE [x |-> [x EXCEPT !.stats.flags =
                             IF admin THEN @ \cup {"STAT_ADMIN"} ELSE @,
                          !.txn.status = 200, !.req.analysers = {},
                          !.rep = Forward(@, 1)],
          ret |-> 1, parsed |-> FALSE, sent |-> <<"200">>]

\* what the parameters of a body may lead to
StatsCodes == {"STAT_STATUS_DONE", "STAT_STATUS_NONE", "STAT_STATUS_ERRP"}

StatsHeaders == <<"h", "h", "CR", "LF">>

InitStats ==
    /\ first = InitMsg("RQBEFORE", -2)
    /\ idx = EmptyIdx
    /\ buf = StatsHeaders
    /\ buf_p = 0
    /\ o = 0
    /\ stream = <<>>
    /\ ctx = NoFind
    /\ backend = DefaultProxy
    /\ \E meth \in {"GET", "HEAD", "POST"}, v \in BOOLEAN,
          admin \in BOOLEAN,
          expect \in {"", "100-continue", "100-Continue", "100-continued"},
          len \in (0..MaxData) \cup {BufSize} :
          /\ meth # "POST" => len = 0 /\ expect = ""
          /\ msg = [InitMsg("RQBEFORE", -2) EXCEPT
                       !.msg_state = "BODY", !.eoh = Len(StatsHeaders) - 2]
                   @@ [body_len |-> len]
          /\ s = [InitSession(DefaultProxy) EXCEPT
                     !.txn.meth = meth,
                     !.txn.req.msg_state = "BODY",
                     !.txn.req.flags = IF v THEN {"HTTP_MSGF_VER_11"}
                                       ELSE {},
                     !.req.analysers = {"AN_REQ_HTTP_PROCESS_FE",
                                        "AN_REQ_HTTP_XFER_BODY"}]
                 @@ [stats |-> [flags |-> {},
                                st_code |-> "STAT_STATUS_INIT"]]
          /\ hist = [NoHist EXCEPT !.stats.admin = admin,
                                   !.stats.expect = expect,
                                   !.stats.body_len = len]

\* <n> bytes of the body arrive
StatsRecv(n) ==
    /\ "CF_SHUTR_NOW" \notin s.req.flags
    /\ Len(buf) + n <= msg.eoh + 2 + msg.body_len
    /\ Len(buf) + n <= BufSize
    /\ buf' = buf \o [k \in 1..n |-> "b"]
    /\ UNCHANGED <<msg, idx, buf_p, o, stream, first, ctx, s, backend, hist>>

\* http_process_req_common is called for the request of the stats page: no
\* rule blocks it, and http_handle_stats may ask to be called again
StatsProcess(st) ==
    /\ "AN_REQ_HTTP_PROCESS_FE" \in s.req.analysers
    /\ \E r \in { http_handle_stats(
                     [s EXCEPT !.req.analysers =
                                  @ \ {"AN_REQ_HTTP_PROCESS_FE"}],
                     msg, Stats.admin, Stats.expect, Len(buf), st) } :
          /\ s' = IF r.ret = 0
                  THEN [r.x EXCEPT
                           !.req.analysers =
                               @ \cup {"AN_REQ_HTTP_PROCESS_FE"},
                           !.req.flags = @ \ {"CF_AUTO_CONNECT"}]
                  ELSE r.x
          /\ hist' = [hist EXCEPT
                         !.stats.sent = @ \o r.sent,
                         !.stats.calls = IF @ < MaxPiece THEN @ + 1 ELSE @,
                         !.stats.parsed = r.parsed]
    /\ UNCHANGED <<pvars, backend>>

\* the response channel sends what it holds to the client
StatsFlush ==
    /\ s.rep.o > 0
    /\ s' = [s EXCEPT !.rep.o = 0]
    /\ UNCHANGED <<pvars, backend, hist>>

NextStats ==
    \/ \E n \in 1..MaxPiece : StatsRecv(n)
    \/ \E st \in StatsCodes : StatsProcess(st)
    \/ StatsFlush

SpecStats == InitStats /\ [][NextStats]_vars

\* a stats admin POST on HTTP/1.1 with Expect: 100-continue
StatsAdminPost ==
    /\ s.txn.meth = "POST" /\ Stats.admin
    /\ "HTTP_MSGF_VER_11" \in s.txn.req.flags
    /\ ExpectsContinue(Stats.expect)

\* C33: for a stats admin POST on HTTP/1.1 with Expect: 100-continue,
\* exactly one '100 Continue' interim response is sent to the client,
\* before the body is parsed and before the 303 redirect, even when the
\* body arrives over several calls of the analyser.
C33_OneContinue ==
    StatsAdminPost /\ Stats.calls > 0 =>
       /\ Stats.sent \in {<<"100">>, <<"100", "303">>}
       /\ Stats.parsed => Stats.sent = <<"100", "303">>
       /\ s.txn.status = 303 <=> Stats.sent = <<"100", "303">>

C33_Witness ==
    /\ StatsAdminPost /\ Stats.calls >= 2 /\ Stats.parsed
    /\ Stats.sent = <<"100", "303">>
    /\ Len(buf) = Len(StatsHeaders) + MaxData
    /\ s.stats.st_code = "STAT_STATUS_DONE"

(***************************************************************************)
(* The cookie pass over the request, cookie by cookie.  Pointers are       *)
(* offsets from buf->p and -1 is NULL.  The backend has the persistence    *)
(* cookie CookieName with the options <ck_opts> and one running server     *)
(* whose cookie is SrvCookie; there is no capture, no appsession and no    *)
(* maxlife or maxidle.                                                     *)
(***************************************************************************)
CookieHdr == <<"C", "o", "o", "k", "i", "e">>

CookieName == <<"S">>

SrvCookie == <<"x">>

\* the first offset from <k> on, below <e>, where the byte is not a space
RECURSIVE SkipSpht(_, _, _)
SkipSpht(b, k, e) ==
    IF k < e /\ HTTP_IS_SPHT(At(b, k)) THEN SkipSpht(b, k + 1, e) ELSE k

\* the same without a limit
RECURSIVE SkipSpaces(_, _)
SkipSpaces(b, k) ==
    IF HTTP_IS_SPHT(At(b, k)) THEN SkipSpaces(b, k + 1) ELSE k

\* the lowest offset down from <k>, above <lim>, before which there is no
\* space
RECURSIVE BackSpht(_, _, _)
BackSpht(b, k, lim) ==
    IF k > lim /\ HTTP_IS_SPHT(At(b, k - 1)) THEN BackSpht(b, k - 1, lim)
    ELSE k

\* find_cookie_value_end
RECURSIVE find_cookie_value_end(_, _, _, _, _)
find_cookie_value_end(b, k, e, quoted, qdpair) ==
    IF k >= e THEN k
    ELSE IF qdpair THEN find_cookie_value_end(b, k + 1, e, quoted, FALSE)
    ELSE IF quoted
    THEN find_cookie_value_end(b, k + 1, e, At(b, k) # "DQ",
                               At(b, k) = "BS")
    ELSE IF At(b, k) = "DQ"
    THEN find_cookie_value_end(b, k + 1, e, TRUE, FALSE)
    ELSE IF At(b, k) \in {",", ";"} THEN k
    ELSE find_cookie_value_end(b, k + 1, e, FALSE, FALSE)

\* the loop that looks for the equal sign: [equal, att_end]
RECURSIVE FindEqual(_, _, _, _)
FindEqual(b, equal, att_end, e) ==
    IF equal >= e \/ At(b, equal) \in {"=", ",", ";"}
    THEN [equal |-> equal, att_end |-> att_end]
    ELSE IF HTTP_IS_SPHT(At(b, equal)) THEN FindEqual(b, equal + 1, att_end, e)
    ELSE FindEqual(b, equal + 1, equal + 1, e)

\* <b> with the byte <ch> at offset <k>
Poke(b, k, ch) == [b EXCEPT ![k + 1] = ch]

\* del_hdr_value: [buf, delta, from]
del_hdr_value(b, from, next) ==
    IF At(b, from) = ":"
    THEN The({ The({ [buf |-> r.buf, delta |-> r.delta, from |-> from]
                     : r \in { IF from + 1 < n1
                               THEN buffer_replace2(
                                       Poke(b, from + 1, "SP"), from + 2,
                                       SkipSpaces(b, n1), <<>>)
                               ELSE buffer_replace2(
                                       b, from + 1, SkipSpaces(b, n1),
                                       <<>>) } })
               : n1 \in { IF ~HTTP_IS_CRLF(At(b, next)) THEN next + 1
                          ELSE next } })
    ELSE The({ IF HTTP_IS_CRLF(At(b, next))
               THEN The({ [buf |-> r.buf, delta |-> r.delta, from |-> prev]
                          : r \in {buffer_replace2(b, prev, next, <<>>)} })
               ELSE The({ [buf |-> r.buf, delta |-> r.delta, from |-> prev]
                          : r \in { IF prev + 2 < next + 1
                                    THEN buffer_replace2(
                                            Poke(Poke(b, prev, At(b, next)),
                                                 prev + 1, "SP"),
                                            prev + 2,
                                            SkipSpaces(b, next + 1), <<>>)
                                    ELSE buffer_replace2(
                                            Poke(b, prev, At(b, next)),
                                            prev + 1,
                                            SkipSpaces(b, next + 1),
                                            <<>>) } })
               : prev \in {BackSpht(b, from, 0)} })

\* the pointers of a cookie: [att_beg, att_end, equal, val_beg, val_end,
\* next]
CookieAt(b, prev, hdr_end) ==
    The({ The({ IF q.equal < hdr_end /\ At(b, q.equal) = "="
                THEN The({ The({ [att_beg |-> att_beg, att_end |-> q.att_end,
                                  equal |-> q.equal, val_beg |-> val_beg,
                                  val_end |-> BackSpht(b, next, val_beg),
                                  next |-> next]
                                 : next \in {find_cookie_value_end(
                                                b, val_beg, hdr_end, FALSE,
                                                FALSE)} })
                           : val_beg \in {SkipSpht(b, q.equal + 1,
                                                   hdr_end)} })
                ELSE [att_beg |-> att_beg, att_end |-> q.att_end,
                      equal |-> q.equal, val_beg |-> q.equal,
                      val_end |-> q.equal, next |-> q.equal]
                : q \in {FindEqual(b, att_beg, att_beg, hdr_end)} })
          : att_beg \in {SkipSpht(b, prev + 1, hdr_end)} })

\* the state of the pass within one header moves by <delta> bytes removed
\* or added before hdr_end
CkMoved(c, r) ==
    [c EXCEPT !.buf = r.buf, !.hdr_end = @ + r.delta,
              !.hdr_next = @ + r.delta, !.len = @ + r.delta,
              !.m = http_msg_move_end(@, r.delta)]

\* the cookie <p> is not ours, or has no equal sign: it is kept and the
\* block scheduled for removal before it is removed; gives the state and
\* the pointer <next> after that
CkPreserve(c, p) ==
    IF c.del_from # -1
    THEN The({ [c |-> [CkMoved(c, r) EXCEPT !.preserve_hdr = TRUE,
                                            !.del_from = -1],
                next |-> p.next + r.delta]
               : r \in {del_hdr_value(c.buf, c.del_from, c.prev)} })
    ELSE [c |-> [c EXCEPT !.preserve_hdr = TRUE], next |-> p.next]

\* the spaces around the equal sign are stripped: the state and the cookie
CkStrip(c, p) ==
    IF p.att_end # p.equal \/ p.val_beg > p.equal + 1
    THEN The({ The({ [c |-> CkMoved(c, [buf |-> r2.buf,
                                        delta |-> r1.delta + r2.delta]),
                      p |-> [p EXCEPT
                               !.equal = @ + r1.delta,
                               !.val_beg = p.equal + r1.delta + 1,
                               !.val_end = @ + r1.delta + r2.delta,
                               !.next = @ + r1.delta + r2.delta]]
                     : r2 \in { IF p.val_beg > p.equal + 1
                                THEN buffer_replace2(
                                        r1.buf, p.equal + r1.delta + 1,
                                        p.val_beg + r1.delta, <<>>)
                                ELSE [buf |-> r1.buf, delta |-> 0] } })
               : r1 \in { IF p.att_end # p.equal
                          THEN buffer_replace2(c.buf, p.att_end, p.equal,
                                               <<>>)
                          ELSE [buf |-> c.buf, delta |-> 0] } })
    ELSE [c |-> c, p |-> p]

\* the first offset of [k, e) that holds <ch>, <e> without one
RECURSIVE FindByte(_, _, _, _)
FindByte(b, k, e, ch) ==
    IF k >= e \/ At(b, k) = ch THEN k ELSE FindByte(b, k + 1, e, ch)

\* the delimiter after the server's cookie in the value
CkDelim(b, p, ck_opts) ==
    IF "PR_CK_PFX" \in ck_opts THEN FindByte(b, p.val_beg, p.val_end, "~")
    ELSE FindByte(b, p.val_beg, p.val_end, "|")

\* the session and transaction flags once the value up to <delim> was
\* looked for among the servers
CkServer(c, b, p, delim) ==
    IF delim # p.val_beg /\ c.flags \cap {"SN_IGNORE_PRST", "SN_ASSIGNED"} = {}
       /\ SubSeq(b, p.val_beg + 1, delim) = SrvCookie
    THEN [c EXCEPT !.ck = "TX_CK_VALID",
                   !.flags = @ \cup {"SN_DIRECT", "SN_ASSIGNED"}]
    ELSE IF c.ck \in {"TX_CK_DOWN", "TX_CK_EXPIRED", "TX_CK_OLD"} THEN c
    ELSE [c EXCEPT !.ck = IF c.flags \cap {"SN_IGNORE_PRST", "SN_ASSIGNED"}
                                # {}
                          THEN "TX_CK_UNUSED" ELSE "TX_CK_INVALID"]

\* in prefix mode the server's part of the value is removed
CkPrefixed(c, p, delim, ck_opts) ==
    "PR_CK_PFX" \in ck_opts /\ delim # p.val_end

\* the persistence cookie <p>: the state and the pointer <next>
CkOurs(c, p, ck_opts) ==
    The({ The({ IF CkPrefixed(c, p, delim, ck_opts)
                THEN The({ [c |-> [CkMoved(d, r) EXCEPT
                                      !.del_from = -1,
                                      !.preserve_hdr = TRUE],
                            next |-> p.next + r.delta]
                           : r \in {buffer_replace2(d.buf, p.val_beg,
                                                    delim + 1, <<>>)} })
                ELSE IF d.del_from = -1
                        /\ {"PR_CK_INS", "PR_CK_IND"} \subseteq ck_opts
                THEN [c |-> [d EXCEPT !.del_from = d.prev], next |-> p.next]
                ELSE [c |-> d, next |-> p.next]
                : d \in {CkServer(c, c.buf, p, delim)} })
          : delim \in {CkDelim(c.buf, p, ck_opts)} })

\* one cookie of the header: the state and the pointer <next>
CkCookie(c, ck_opts) ==
    The({ IF At(c.buf, p.att_beg) = "$" THEN [c |-> c, next |-> p.next]
          ELSE IF p.equal = p.next THEN CkPreserve(c, p)
          ELSE The({ IF q.p.att_end - q.p.att_beg = Len(CookieName)
                        /\ SubSeq(q.c.buf, q.p.att_beg + 1, q.p.att_end)
                              = CookieName
                     THEN CkOurs(q.c, q.p, ck_opts)
                     ELSE CkPreserve(q.c, q.p)
                     : q \in {CkStrip(c, p)} })
          : p \in {CookieAt(c.buf, c.prev, c.hdr_end)} })

\* for (prev = hdr_beg + 6; prev < hdr_end; prev = next)
RECURSIVE CkCookies(_, _)
CkCookies(c, ck_opts) ==
    IF c.prev >= c.hdr_end THEN c
    ELSE The({ CkCookies([r.c EXCEPT !.prev = r.next], ck_opts)
               : r \in {CkCookie(c, ck_opts)} })

\* http_header_match2 for the name Cookie
IsCookieHdr(b, hdr_beg, hdr_end) ==
    /\ hdr_end - hdr_beg > Len(CookieHdr)
    /\ SubSeq(b, hdr_beg + 1, hdr_beg + Len(CookieHdr)) = CookieHdr
    /\ At(b, hdr_beg + Len(CookieHdr)) = ":"

\* the end of a Cookie header whose cookies were gone through: what is
\* still scheduled for removal is removed; [buf, m, idx, hdr_next, cur_idx]
CkEndOfHeader(c, ix, old_idx, cur_idx, hdr_beg) ==
    IF c.del_from = -1
    THEN [buf |-> c.buf, m |-> c.m, hdr_next |-> c.hdr_next,
          idx |-> [ix EXCEPT !.v[cur_idx].len = c.len],
          cur_idx |-> cur_idx, flags |-> c.flags, ck |-> c.ck]
    ELSE IF c.preserve_hdr
    THEN The({ [buf |-> r.buf, m |-> http_msg_move_end(c.m, r.delta),
                hdr_next |-> c.hdr_next + r.delta,
                idx |-> [ix EXCEPT !.v[cur_idx].len = c.len + r.delta],
                cur_idx |-> cur_idx, flags |-> c.flags, ck |-> c.ck]
               : r \in {del_hdr_value(c.buf, c.del_from, c.hdr_end)} })
    ELSE The({ [buf |-> r.buf, m |-> http_msg_move_end(c.m, r.delta),
                hdr_next |-> c.hdr_next + r.delta,
                idx |-> [ix EXCEPT !.v[old_idx].next = ix.v[cur_idx].next,
                                    !.used = @ - 1,
                                    !.v[cur_idx].len = 0],
                cur_idx |-> old_idx, flags |-> c.flags, ck |-> c.ck]
               : r \in {buffer_replace2(c.buf, hdr_beg, c.hdr_next, <<>>)} })

\* while ((cur_idx = txn->hdr_idx.v[old_idx].next)); <x> is
\* [buf, m, idx, flags, ck] and <n> counts the headers
RECURSIVE CkHeaders(_, _, _, _, _)
CkHeaders(x, old_idx, hdr_next, ck_opts, n) ==
    IF x.idx.v[old_idx].next = 0 \/ n > HdrIdxSize THEN x
    ELSE The({ The({
           IF ~IsCookieHdr(x.buf, hdr_next, hdr_end)
           THEN CkHeaders(x, cur_idx,
                          hdr_end + x.idx.v[cur_idx].cr + 1, ck_opts, n + 1)
           ELSE The({ CkHeaders([buf |-> e.buf, m |-> e.m, idx |-> e.idx,
                                 flags |-> e.flags, ck |-> e.ck],
                                e.cur_idx, e.hdr_next, ck_opts, n + 1)
                      : e \in { CkEndOfHeader(
                                   CkCookies(
                                      [buf |-> x.buf, m |-> x.m,
                                       len |-> x.idx.v[cur_idx].len,
                                       hdr_end |-> hdr_end,
                                       hdr_next |-> hdr_end
                                           + x.idx.v[cur_idx].cr + 1,
                                       prev |-> hdr_next + Len(CookieHdr),
                                       del_from |-> -1,
                                       preserve_hdr |-> FALSE,
                                       flags |-> x.flags, ck |-> x.ck],
                                      ck_opts),
                                   x.idx, old_idx, cur_idx, hdr_next) } })
           : hdr_end \in {hdr_next + x.idx.v[cur_idx].len} })
         : cur_idx \in {x.idx.v[old_idx].next} })

\* manage_client_side_cookies, cookie by cookie
client_side_cookies(x, ck_opts) ==
    CkHeaders(x, 0, hdr_idx_first_pos(x.idx), ck_opts, 1)

MaxCookie == 4

CookieBytes == {"S", "x", "=", "~", ";", "SP", "$"}

\* the values of the Cookie header of the request
CookieValues == UNION {[1..n -> CookieBytes] : n \in 0..MaxCookie}

CkStartLine == <<"G", "SP", "/", "SP", "H", "LF">>

CkOptions == {{"PR_CK_PFX"}, {"PR_CK_INS", "PR_CK_IND"}, {"PR_CK_INS"}}

Ck == hist.ck

\* a request with a Cookie header and another header after it, as the
\* parser indexes it
InitCookies ==
    /\ \E v \in CookieValues, opts \in CkOptions :
          /\ buf = CkStartLine \o CookieHdr \o <<":">> \o v \o <<"LF">>
                       \o <<"H", ":", "x", "LF">> \o <<"LF">>
          /\ idx = [EmptyIdx EXCEPT
                       !.v[0] = [len |-> Len(CkStartLine) - 1, cr |-> 0,
                                 next |-> 1],
                       !.v[1] = [len |-> Len(CookieHdr) + 1 + Len(v),
                                 cr |-> 0, next |-> 2],
                       !.v[2] = [len |-> 3, cr |-> 0, next |-> 0],
                       !.used = 3, !.last = 3, !.tail = 2]
          /\ msg = [InitMsg("RQBEFORE", -2) EXCEPT
                       !.msg_state = "BODY",
                       !.eoh = Len(CkStartLine) + Len(CookieHdr) + Len(v)
                                  + 6,
                       !.sov = Len(CkStartLine) + Len(CookieHdr) + Len(v)
                                  + 7,
                       !.next = Len(CkStartLine) + Len(CookieHdr) + Len(v)
                                  + 7]
          /\ backend = [DefaultProxy EXCEPT !.options = opts]
          /\ stream = v
    /\ first = InitMsg("RQBEFORE", -2)
    /\ buf_p = 0
    /\ o = 0
    /\ ctx = NoFind
    /\ s = [flags |-> {}, ck |-> "TX_CK_NONE"]
    /\ hist = NoHist

\* the cookie pass runs
CkPass ==
    /\ Ck.passes < 2
    /\ \E r \in { client_side_cookies(
                     [buf |-> buf, m |-> msg, idx |-> idx,
                      flags |-> s.flags, ck |-> s.ck], backend.options) } :
          /\ buf' = r.buf
          /\ msg' = r.m
          /\ idx' = r.idx
          /\ s' = [flags |-> r.flags, ck |-> r.ck]
          /\ hist' = [hist EXCEPT
                         !.ck.passes = @ + 1,
                         !.ck.before = buf,
                         !.ck.after1 = IF Ck.passes = 0 THEN r.buf ELSE @]
    /\ UNCHANGED <<buf_p, o, stream, first, ctx, backend>>

NextCookies == CkPass

SpecCookies == InitCookies /\ [][NextCookies]_vars

\* C34: running the request cookie pass a second time on the same
\* transaction, with no server change in between, leaves the request
\* buffer byte for byte as the first pass left it.
C34_Idempotent == Ck.passes = 2 => buf = Ck.after1

\* what the code keeps: the second pass changes nothing unless the backend
\* is in prefix mode
C34_IdempotentNoPrefix ==
    Ck.passes = 2 /\ "PR_CK_PFX" \notin backend.options => buf = Ck.after1

(***************************************************************************)
(* The end of a keep-alive transaction.                                    *)
(***************************************************************************)
\* http_resync_states was called in keep-alive mode with the request and
\* the response both DONE
KalBothDone ==
    /\ hist.sync.ran
    /\ hist.sync.pre.txn.con_want = "KAL"
    /\ hist.sync.pre.txn.req.msg_state = "DONE"
    /\ hist.sync.pre.txn.rsp.msg_state = "DONE"

\* C35 as stated: in KAL (keep-alive) mode, once request and response are
\* both DONE the transaction is ended and reset so that the next request on
\* the same client connection is parsed as HTTP; the two directions are not
\* switched to TUNNEL.
C35_KeepAliveReset ==
    KalBothDone =>
        /\ Ret.txn.req.msg_state = "RQBEFORE"
        /\ Ret.txn.rsp.msg_state = "RPBEFORE"
        /\ "AN_REQ_WAIT_HTTP" \in Ret.req.analysers

\* the write side of neither channel was shut or about to be
KalOpen ==
    /\ hist.sync.pre.req.flags \cap {"CF_SHUTW", "CF_SHUTW_NOW"} = {}
    /\ hist.sync.pre.rep.flags \cap {"CF_SHUTW", "CF_SHUTW_NOW"} = {}

\* C35: in KAL (keep-alive) mode, once request and response are both DONE
\* and the write side of neither channel is shut or about to be, the two
\* directions are switched to TUNNEL and the analysers of both channels are
\* removed; the transaction is not reset, so that what follows on the
\* connection is not parsed as HTTP.
C35_KeepAliveTunnel ==
    KalBothDone /\ KalOpen =>
        /\ Ret.txn.req.msg_state = "TUNNEL"
        /\ Ret.txn.rsp.msg_state = "TUNNEL"
        /\ Ret.req.analysers = {}
        /\ Ret.rep.analysers = {}
        /\ Ret.txn.status = hist.sync.pre.txn.status
        /\ Ret.txn.meth = hist.sync.pre.txn.meth

C35_Witness ==
    /\ KalBothDone /\ KalOpen
    /\ s.txn.req.msg_state = "TUNNEL" /\ s.txn.rsp.msg_state = "TUNNEL"
    /\ s.req.analysers = {} /\ s.rep.analysers = {}
    /\ s.txn.status = 200

(***************************************************************************)
(* The response filters (rspallow, rspdeny, rsprep, rspdel and a filter    *)
(* with ACT_PASS).  A filter is [action, hit, cond]: its expression        *)
(* matches the status line ("line", "badline" when the replacement makes   *)
(* the line unparsable), a header ("hdr") or nothing ("none"), and its     *)
(* condition, if any, passes or not.  The list is a sequence, and the      *)
(* position after its last filter is the null pointer.                     *)
(***************************************************************************)
MaxFilters == 3

Decisions == {"ACT_ALLOW", "ACT_DENY", "ACT_PASS"}

\* apply_filter_to_sts_line: [ret, flags]
apply_filter_to_sts_line(flags, f) ==
    IF "TX_SVDENY" \in flags THEN [ret |-> 1, flags |-> flags]
    ELSE IF "TX_SVALLOW" \in flags /\ f.action \in {"ACT_ALLOW", "ACT_DENY"}
    THEN [ret |-> 0, flags |-> flags]
    ELSE IF f.action = "ACT_REMOVE" THEN [ret |-> 0, flags |-> flags]
    ELSE IF f.hit \notin {"line", "badline"} THEN [ret |-> 0, flags |-> flags]
    ELSE IF f.action = "ACT_ALLOW"
    THEN [ret |-> 1, flags |-> flags \cup {"TX_SVALLOW"}]
    ELSE IF f.action = "ACT_DENY"
    THEN [ret |-> 1, flags |-> flags \cup {"TX_SVDENY"}]
    ELSE IF f.action = "ACT_REPLACE"
    THEN [ret |-> IF f.hit = "badline" THEN -1 ELSE 1, flags |-> flags]
    ELSE [ret |-> 0, flags |-> flags]

\* apply_filter_to_resp_headers: the flags of the transaction after it
apply_filter_to_resp_headers(flags, f) ==
    IF "TX_SVDENY" \in flags THEN flags
    ELSE IF "TX_SVALLOW" \in flags /\ f.action \in {"ACT_ALLOW", "ACT_DENY"}
    THEN flags
    ELSE IF f.hit # "hdr" THEN flags
    ELSE IF f.action = "ACT_ALLOW" THEN flags \cup {"TX_SVALLOW"}
    ELSE IF f.action = "ACT_DENY" THEN flags \cup {"TX_SVDENY"}
    ELSE flags

\* apply_filters_to_response from the filter of rank <k> on; <r> is
\* [flags, applied, ret, fault] and <ub> what reading exp->next of a null
\* pointer gives: a fault that ends the process or a null pointer
RECURSIVE apply_filters_to_response(_, _, _, _)
apply_filters_to_response(fs, k, r, ub) ==
    IF k > Len(fs) THEN r
    ELSE IF "TX_SVDENY" \in r.flags THEN r
    ELSE IF "TX_SVALLOW" \in r.flags /\ fs[k].action \in Decisions
    THEN IF k + 1 > Len(fs)
         THEN [r EXCEPT !.fault = TRUE,
                        !.ret = IF ub = "SIGSEGV" THEN -2 ELSE 0]
         ELSE apply_filters_to_response(fs, k + 2, r, ub)
    ELSE IF ~fs[k].cond THEN apply_filters_to_response(fs, k + 1, r, ub)
    ELSE The({ IF l.ret < 0
               THEN [r EXCEPT !.applied = Append(@, k), !.ret = -1,
                              !.flags = l.flags]
               ELSE apply_filters_to_response(
                       fs, k + 1,
                       [r EXCEPT !.applied = Append(@, k),
                                 !.flags = IF l.ret = 0
                                           THEN apply_filter_to_resp_headers(
                                                   l.flags, fs[k])
                                           ELSE l.flags],
                       ub)
               : l \in {apply_filter_to_sts_line(r.flags, fs[k])} })

\* the filters a proxy may have
RspFilters ==
    [action : Decisions \cup {"ACT_REPLACE", "ACT_REMOVE"},
     hit : {"none", "line", "hdr"}, cond : {TRUE}]
    \cup { [action |-> "ACT_REPLACE", hit |-> "badline", cond |-> TRUE],
           [action |-> "ACT_REPLACE", hit |-> "hdr", cond |-> FALSE] }

Flt == hist.flt

InitFilters ==
    /\ msg = InitMsg("RPBEFORE", -2)
    /\ first = InitMsg("RPBEFORE", -2)
    /\ idx = EmptyIdx
    /\ buf = <<>>
    /\ buf_p = 0
    /\ o = 0
    /\ stream = <<>>
    /\ ctx = NoFind
    /\ backend = DefaultProxy
    /\ s = [txn |-> [flags |-> {}]]
    /\ \E n \in 1..MaxFilters : \E fs \in [1..n -> RspFilters] :
          hist = [NoHist EXCEPT !.flt.fs = fs]

\* the filters of the proxy are applied to the response
ApplyFilters(ub) ==
    /\ ~Flt.ran
    /\ \E r \in { apply_filters_to_response(
                     Flt.fs, 1,
                     [flags |-> s.txn.flags, applied |-> <<>>, ret |-> 0,
                      fault |-> FALSE], ub) } :
          /\ s' = [s EXCEPT !.txn.flags = r.flags]
          /\ hist' = [hist EXCEPT !.flt.ran = TRUE,
                                  !.flt.applied = r.applied,
                                  !.flt.ret = r.ret,
                                  !.flt.fault = r.fault]
    /\ UNCHANGED <<pvars, backend>>

NextFilters == \E ub \in {"SIGSEGV", "null"} : ApplyFilters(ub)

SpecFilters == InitFilters /\ [][NextFilters]_vars

\* the filter of rank <k> was applied
FltApplied(k) == \E j \in 1..Len(Flt.applied) : Flt.applied[j] = k

\* a filter before the one of rank <k> has set the ALLOW decision
FltAllowedBefore(k) ==
    \E j \in 1..(k - 1) :
       /\ FltApplied(j)
       /\ Flt.fs[j].action = "ACT_ALLOW"
       /\ Flt.fs[j].hit \in {"line", "hdr"}

\* C36: in apply_filters_to_response, once a response filter has set the
\* ALLOW decision, every later filter that is not an ALLOW, DENY or PASS
\* filter is still applied, in declaration order: skipping an ALLOW, DENY
\* or PASS filter never skips the filter that follows it and never reads
\* past the end of the filter list.
C36_NoSkip ==
    Flt.ran =>
       /\ ~Flt.fault
       /\ Flt.ret = 0 =>
             \A k \in 1..Len(Flt.fs) :
                /\ FltAllowedBefore(k)
                /\ Flt.fs[k].action \notin Decisions
                /\ Flt.fs[k].cond
                => FltApplied(k)
       /\ \A i \in 1..Len(Flt.applied), j \in 1..Len(Flt.applied) :
             i < j => Flt.applied[i] < Flt.applied[j]

(***************************************************************************)
(* A request that a rule or a filter denies or tarpits.  The request       *)
(* channel holds <i> bytes that wait for the analysers and <o> bytes that  *)
(* are scheduled for the server.  The request filters are [action, hit]:   *)
(* the expression of the filter matches the request line or a header, or   *)
(* nothing.  The server side connects when the channel asks for it         *)
(* (CF_AUTO_CONNECT) or has bytes to send, unless its write side is shut.  *)
(***************************************************************************)
ReqDecisions == {"ACT_ALLOW", "ACT_DENY", "ACT_TARPIT", "ACT_PASS"}

\* apply_filters_to_request from the filter of rank <k> on: the flags of
\* the transaction after it
RECURSIVE apply_filters_to_request(_, _, _)
apply_filters_to_request(fs, k, flags) ==
    IF k > Len(fs) THEN flags
    ELSE IF flags \cap {"TX_CLDENY", "TX_CLTARPIT"} # {} THEN flags
    ELSE IF "TX_CLALLOW" \in flags /\ fs[k].action \in ReqDecisions
    THEN apply_filters_to_request(fs, k + 1, flags)
    ELSE apply_filters_to_request(
            fs, k + 1,
            IF ~fs[k].hit THEN flags
            ELSE IF fs[k].action = "ACT_ALLOW"
            THEN flags \cup {"TX_CLALLOW"}
            ELSE IF fs[k].action = "ACT_DENY"
            THEN flags \cup {"TX_CLDENY"}
            ELSE IF fs[k].action = "ACT_TARPIT"
            THEN flags \cup {"TX_CLTARPIT"}
            ELSE flags)

\* channel_erase
channel_erase(chn) == [chn EXCEPT !.i = 0, !.o = 0]

\* the analysers of the request go on after the 403
Deny403Keep(x) ==
    [stream_int_retnclose([x EXCEPT !.txn.status = 403], 1)
        EXCEPT !.req.i = 0]

\* the request is denied: the 403 and return_prx_cond
Deny403(x) ==
    [stream_int_retnclose([x EXCEPT !.txn.status = 403], 1)
        EXCEPT !.req.i = 0,
               !.req.analysers = {},
               !.req.analyse_exp = 0]

\* the request is tarpitted
DenyTarpit(x, px, now) ==
    [x EXCEPT !.req = [channel_erase(@) EXCEPT
                          !.flags = @ \ {"CF_AUTO_CONNECT"},
                          !.analysers = {"AN_REQ_HTTP_TARPIT"},
                          !.analyse_exp = TarpitExp(now, px.timeout_tarpit)]]

\* http_process_req_common of a proxy with http-request rules and request
\* filters: the block conditions, the redirect rules and the statistics
\* are absent
req_common_decision(x, px, now, an_bit) ==
    IF Before(x.txn.req.msg_state, "BODY")
    THEN [x EXCEPT !.req.flags = @ \ {"CF_AUTO_CONNECT"}]
    ELSE
    The({ IF "TX_CLDENY" \in r.flags
          THEN Deny403([x EXCEPT !.txn.flags = r.flags,
                                 !.req.analysers = @ \ {an_bit}])
          ELSE IF "TX_CLTARPIT" \in r.flags
          THEN DenyTarpit([x EXCEPT !.txn.flags = r.flags], px, now)
          ELSE
          The({ IF "TX_CLDENY" \in fl
                THEN Deny403([x EXCEPT !.txn.flags = fl,
                                       !.req.analysers = @ \ {an_bit}])
                ELSE IF "TX_CLTARPIT" \in fl
                THEN DenyTarpit([x EXCEPT !.txn.flags = fl], px, now)
                ELSE IF r.rule # 0 /\ px.http_req_rules[r.rule].action
                                         = "HTTP_REQ_ACT_AUTH"
                THEN [stream_int_retnclose(
                         [ReqConnMode([x EXCEPT !.txn.flags = fl])
                             EXCEPT !.txn.status = 401], 1)
                        EXCEPT !.req.i = 0,
                               !.req.analysers = {},
                               !.req.analyse_exp = 0]
                ELSE [ReqConnMode([x EXCEPT !.txn.flags = fl]) EXCEPT
                         !.req.flags = @ \cup {"CF_SEND_DONTWAIT"},
                         !.req.analysers = @ \ {an_bit},
                         !.req.analyse_exp = 0]
                : fl \in {apply_filters_to_request(px.req_exp, 1,
                                                   r.flags)} })
          : r \in {http_req_get_intercept_rule(
                      px.http_req_rules, 1,
                      [rule |-> 0, flags |-> x.txn.flags,
                       hdrs |-> <<>>])} })

\* the request filters of a proxy: none, one or two
ReqFilters ==
    [action : ReqDecisions \cup {"ACT_REPLACE"}, hit : BOOLEAN]

ReqFilterLists ==
    {<<>>} \cup {<<f>> : f \in ReqFilters}
    \cup {<<f, g>> : f \in ReqFilters, g \in ReqFilters}

\* the http-request rules of a proxy: none or one without condition
DenyRuleLists ==
    {<<>>} \cup
    {<<[pol |-> "none", need |-> 0, match |-> TRUE, action |-> a,
        hdr |-> "X"]>> :
        a \in {"HTTP_REQ_ACT_ALLOW", "HTTP_REQ_ACT_DENY",
               "HTTP_REQ_ACT_TARPIT", "HTTP_REQ_ACT_AUTH"}}

InitDeny ==
    /\ msg = InitMsg("RQBEFORE", -2)
    /\ first = InitMsg("RQBEFORE", -2)
    /\ idx = EmptyIdx
    /\ buf = <<>>
    /\ buf_p = 0
    /\ o = 0
    /\ stream = <<>>
    /\ ctx = NoFind
    /\ hist = NoHist
    /\ \E rules \in DenyRuleLists, fs \in ReqFilterLists, t \in {0, 2} :
          backend = DefaultProxy @@ [http_req_rules |-> rules,
                                     req_exp |-> fs,
                                     timeout_tarpit |-> t]
    /\ s = [InitSession(DefaultProxy) EXCEPT
               !.txn.req.msg_state = "BODY",
               !.txn.status = 0,
               !.req = [flags |-> {}, i |-> 1, o |-> 0, analyse_exp |-> 0,
                        analysers |-> {"AN_REQ_HTTP_PROCESS_FE",
                                       "AN_REQ_HTTP_XFER_BODY"}]]

\* the request was denied or tarpitted
Decided == s.txn.flags \cap {"TX_CLDENY", "TX_CLTARPIT"} # {}

\* the session is processed with the request headers parsed
DenyProcess ==
    /\ "AN_REQ_HTTP_PROCESS_FE" \in s.req.analysers
    /\ s' = req_common_decision(s, backend, Rule.now,
                               "AN_REQ_HTTP_PROCESS_FE")
    /\ hist' = [hist EXCEPT !.rule.ran = TRUE]
    /\ UNCHANGED <<pvars, backend>>

\* the session is processed while the request is tarpitted
DenyPit ==
    /\ "AN_REQ_HTTP_TARPIT" \in s.req.analysers
    /\ s' = http_process_tarpit(s, Rule.now, "AN_REQ_HTTP_TARPIT").x
    /\ hist' = [hist EXCEPT !.rule.pit = TRUE]
    /\ UNCHANGED <<pvars, backend>>

\* http_request_forward_body schedules the bytes of the request
DenyForward ==
    /\ s.req.analysers = {"AN_REQ_HTTP_XFER_BODY"}
    /\ s.req.i > 0
    /\ s' = [s EXCEPT !.req.o = @ + s.req.i, !.req.i = 0]
    /\ UNCHANGED <<pvars, backend, hist>>

\* the client sends more bytes
DenyRecv ==
    /\ s.req.flags \cap {"CF_SHUTR", "CF_SHUTR_NOW", "CF_READ_ERROR"} = {}
    /\ s.req.i + s.req.o < MaxData
    /\ s' = [s EXCEPT !.req.i = @ + 1]
    /\ UNCHANGED <<pvars, backend, hist>>

\* a connection to a server is initiated
DenyConnect ==
    /\ s.srv.state = "SI_ST_INI"
    /\ "CF_SHUTW" \notin s.req.flags
    /\ "CF_AUTO_CONNECT" \in s.req.flags \/ s.req.o > 0
    /\ s' = [s EXCEPT !.srv.state = "SI_ST_EST"]
    /\ UNCHANGED <<pvars, backend, hist>>

\* a byte of the request channel is sent to the server
DenySend ==
    /\ s.srv.state = "SI_ST_EST"
    /\ s.req.o > 0
    /\ s' = [s EXCEPT !.req.o = @ - 1]
    /\ hist' = [hist EXCEPT !.rule.fwd = TRUE]
    /\ UNCHANGED <<pvars, backend>>

NextDeny ==
    \/ DenyProcess \/ DenyPit \/ DenyForward \/ DenyRecv \/ DenyConnect
    \/ DenySend \/ RuleShutr \/ RuleReadError \/ RuleTick

SpecDeny == InitDeny /\ [][NextDeny]_vars

TermSetAlways(fl, err, finst) ==
    [err |-> fl.err \cup {err}, finst |-> fl.finst \cup {finst}]

\* if (!(s->flags & SN_ERR_MASK)) s->flags |= err;
\* if (!(s->flags & SN_FINST_MASK)) s->flags |= finst;
TermSet(fl, err, finst) ==
    [err |-> IF fl.err = {} THEN {err} ELSE fl.err,
     finst |-> IF fl.finst = {} THEN {finst} ELSE fl.finst]

\* the cause alone, as the paths to failed_keep_alive write it
TermSetErr(fl, err) == [fl EXCEPT !.err = TermSet(fl, err, "none").err]

\* SN_FINST_H or SN_FINST_D of the body analysers of the request
TermPhase(x) ==
    IF Before(x.txn.rsp.msg_state, "ERROR") THEN "SN_FINST_H"
    ELSE "SN_FINST_D"

\* channel_abort
TermAbort(chn) ==
    [chn EXCEPT !.flags = (@ \ {"CF_AUTO_CONNECT"})
                             \cup {"CF_SHUTR_NOW", "CF_SHUTW_NOW"}]

\* tcp_inspect_request when a rule rejects the connection
term_inspect_reject(x) ==
    [x EXCEPT !.req = [TermAbort(@) EXCEPT !.analysers = {}],
              !.rep = TermAbort(@),
              !.flags = TermSet(@, "SN_ERR_PRXCOND", "SN_FINST_R")]

\* the error paths of http_wait_for_request: a read error, the timeout, the
\* close of the client, then <bad>, a request that is not valid
term_wait_for_request(x, bad) ==
    LET low == IF "CF_READ_ERROR" \in x.req.flags THEN "SN_ERR_CLICL"
               ELSE IF "CF_READ_TIMEOUT" \in x.req.flags THEN "SN_ERR_CLITO"
               ELSE IF "CF_SHUTR" \in x.req.flags THEN "SN_ERR_CLICL"
               ELSE "none"
    IN  IF bad
        THEN [x EXCEPT !.txn.req.msg_state = "ERROR",
                       !.txn.status = 400,
                       !.req = [TermAbort(@) EXCEPT !.analysers = {}],
                       !.flags = TermSet(@, "SN_ERR_PRXCOND", "SN_FINST_R")]
        ELSE IF low = "none" THEN x
        ELSE IF "TX_WAIT_NEXT_RQ" \in x.txn.flags
        THEN [x EXCEPT !.txn.status = 0,
                       !.txn.req.msg_state = "RQBEFORE",
                       !.req = [TermAbort(@) EXCEPT !.analysers = {}],
                       !.flags = TermSetErr(@, low)]
        ELSE [x EXCEPT !.txn.status = IF low = "SN_ERR_CLITO"
                                      THEN 408 ELSE 400,
                       !.txn.req.msg_state = "ERROR",
                       !.req = [TermAbort(@) EXCEPT !.analysers = {}],
                       !.flags = TermSet(@, low, "SN_FINST_R")]

\* return_prx_cond of http_process_req_common
term_req_common_deny(x) ==
    [x EXCEPT !.txn.status = 403,
              !.req = [TermAbort(@) EXCEPT !.analysers = {}],
              !.flags = TermSet(@, "SN_ERR_PRXCOND", "SN_FINST_R")]

\* the end of http_process_tarpit
term_tarpit(x) ==
    [x EXCEPT !.txn.status = 500,
              !.req = [(IF "CF_READ_ERROR" \in @.flags THEN @
                        ELSE TermAbort(@)) EXCEPT !.analysers = {}],
              !.flags = TermSet(@, "SN_ERR_PRXCOND", "SN_FINST_T")]

\* the error paths of http_request_forward_body: <path> is "missing_data"
\* with the input closed, "return_bad_req" or "aborted_xfer"
term_request_forward_body(x, path) ==
    LET x1 == IF path = "missing_data"
              THEN [x EXCEPT !.flags = TermSet(@, "SN_ERR_CLICL",
                                               TermPhase(x))]
              ELSE x
        st == IF x1.txn.status # 0 THEN x1.txn.status
              ELSE IF path = "aborted_xfer" THEN 502 ELSE 400
    IN  [x1 EXCEPT !.txn.req.msg_state = "ERROR",
                   !.txn.status = st,
                   !.req = [TermAbort(@) EXCEPT !.analysers = {}],
                   !.rep.analysers = {},
                   !.flags = TermSet(@, IF path = "aborted_xfer"
                                        THEN "SN_ERR_SRVCL"
                                        ELSE "SN_ERR_PRXCOND",
                                     TermPhase(x1))]

\* the error paths of the response analysers: http_wait_for_response gives
\* phase H and empties the response analysers, http_response_forward_body
\* gives phase D and empties the analysers of both channels
term_response(x, err, body) ==
    [x EXCEPT !.txn.rsp.msg_state = IF body THEN "ERROR" ELSE @,
              !.txn.status = IF body THEN @ ELSE 502,
              !.rep = [TermAbort(@) EXCEPT !.analysers = {}],
              !.req.analysers = IF body THEN {} ELSE @,
              !.flags = TermSet(@, err, IF body THEN "SN_FINST_D"
                                        ELSE "SN_FINST_H")]

\* http_server_error, as http_return_srv_error calls it
http_server_error(x, err, finst, status) ==
    [x EXCEPT !.txn.status = status,
              !.req = TermAbort(@),
              !.rep = TermAbort(@),
              !.flags = TermSet(@, err, finst)]

Term == hist.term

InitTerm ==
    /\ msg = InitMsg("RQBEFORE", -2)
    /\ first = InitMsg("RQBEFORE", -2)
    /\ idx = EmptyIdx
    /\ buf = <<>>
    /\ buf_p = 0
    /\ o = 0
    /\ stream = <<>>
    /\ ctx = NoFind
    /\ hist = NoHist
    /\ backend = DefaultProxy
    /\ \E next_rq \in BOOLEAN :
          s = [InitSession(DefaultProxy) EXCEPT
                  !.txn.flags = IF next_rq THEN {"TX_WAIT_NEXT_RQ"} ELSE {},
                  !.txn.status = 0,
                  !.req.analysers = {"AN_REQ_INSPECT_FE", "AN_REQ_WAIT_HTTP",
                                     "AN_REQ_HTTP_PROCESS_FE",
                                     "AN_REQ_HTTP_XFER_BODY"}]
              @@ [flags |-> [err |-> {}, finst |-> {}]]

\* an error path took the session from s to <y>
TermPath(y) ==
    /\ s' = y
    /\ hist' = [hist EXCEPT
                   !.term = [paths |-> IF Term.paths < 2 THEN Term.paths + 1
                                       ELSE 2,
                             err |-> IF Term.paths = 0 THEN y.flags.err
                                     ELSE Term.err,
                             finst |-> IF Term.paths = 0 THEN y.flags.finst
                                       ELSE Term.finst]]
    /\ UNCHANGED <<pvars, backend>>

\* the first analyser of the request channel
TermNext ==
    IF "AN_REQ_INSPECT_FE" \in s.req.analysers THEN "AN_REQ_INSPECT_FE"
    ELSE IF "AN_REQ_WAIT_HTTP" \in s.req.analysers THEN "AN_REQ_WAIT_HTTP"
    ELSE IF "AN_REQ_HTTP_PROCESS_FE" \in s.req.analysers
    THEN "AN_REQ_HTTP_PROCESS_FE"
    ELSE IF "AN_REQ_HTTP_TARPIT" \in s.req.analysers
    THEN "AN_REQ_HTTP_TARPIT"
    ELSE IF "AN_REQ_HTTP_XFER_BODY" \in s.req.analysers
    THEN "AN_REQ_HTTP_XFER_BODY"
    ELSE "none"

\* an analyser of the request is done with its work: the request is
\* complete at the end of http_wait_for_request, and <pit> tarpits it
TermPass(pit) ==
    /\ TermNext \in {"AN_REQ_INSPECT_FE", "AN_REQ_WAIT_HTTP",
                     "AN_REQ_HTTP_PROCESS_FE", "AN_REQ_HTTP_XFER_BODY"}
    /\ pit => TermNext = "AN_REQ_HTTP_PROCESS_FE"
    /\ s' = [s EXCEPT
                !.req.analysers = IF pit THEN {"AN_REQ_HTTP_TARPIT"}
                                  ELSE @ \ {TermNext},
                !.txn.req.msg_state =
                    IF TermNext = "AN_REQ_WAIT_HTTP" THEN "BODY"
                    ELSE IF TermNext = "AN_REQ_HTTP_XFER_BODY" THEN "DONE"
                    ELSE @,
                !.rep.analysers =
                    IF TermNext = "AN_REQ_HTTP_PROCESS_FE" /\ ~pit
                    THEN {"AN_RES_WAIT_HTTP", "AN_RES_HTTP_XFER_BODY"}
                    ELSE @]
    /\ UNCHANGED <<pvars, backend, hist>>

TermInspect ==
    /\ TermNext = "AN_REQ_INSPECT_FE"
    /\ TermPath(term_inspect_reject(s))

TermWaitRequest(bad) ==
    /\ TermNext = "AN_REQ_WAIT_HTTP"
    /\ term_wait_for_request(s, bad) # s
    /\ TermPath(term_wait_for_request(s, bad))

TermDeny ==
    /\ TermNext = "AN_REQ_HTTP_PROCESS_FE"
    /\ TermPath(term_req_common_deny(s))

TermTarpit ==
    /\ TermNext = "AN_REQ_HTTP_TARPIT"
    /\ TermPath(term_tarpit(s))

TermRequestBody(path) ==
    /\ TermNext = "AN_REQ_HTTP_XFER_BODY"
    /\ path = "missing_data" => "CF_SHUTR" \in s.req.flags
    /\ path = "aborted_xfer" => "CF_SHUTW" \in s.req.flags
    /\ TermPath(term_request_forward_body(s, path))

\* the response analysers: the headers of the response are parsed, or an
\* error path of http_wait_for_response or http_response_forward_body
TermResponseHeaders ==
    /\ "AN_RES_WAIT_HTTP" \in s.rep.analysers
    /\ s' = [s EXCEPT !.rep.analysers = @ \ {"AN_RES_WAIT_HTTP"},
                      !.txn.rsp.msg_state = "BODY",
                      !.txn.status = 200]
    /\ UNCHANGED <<pvars, backend, hist>>

TermResponse(err) ==
    /\ s.rep.analysers # {}
    /\ err = "SN_ERR_SRVTO" => "AN_RES_WAIT_HTTP" \in s.rep.analysers
    /\ TermPath(term_response(s, err,
                              "AN_RES_WAIT_HTTP" \notin s.rep.analysers))

\* the connection to the server fails
TermServerError(err, finst) ==
    /\ s.srv.state = "SI_ST_INI"
    /\ TermNext \in {"AN_REQ_HTTP_XFER_BODY", "none"}
    /\ "CF_SHUTW_NOW" \notin s.req.flags
    /\ s.txn.req.msg_state \in {"BODY", "DONE"}
    /\ TermPath([http_server_error(s, err, finst,
                                   IF err = "SN_ERR_INTERNAL" THEN 500
                                   ELSE 503)
                    EXCEPT !.srv.state = "SI_ST_CLO"])

\* a read fails or times out, or a side is closed
TermChannel(f) ==
    /\ f \notin s.req.flags
    /\ s.req.flags \cap {"CF_READ_ERROR", "CF_READ_TIMEOUT"} = {}
    /\ s' = [s EXCEPT !.req.flags = @ \cup {f}]
    /\ UNCHANGED <<pvars, backend, hist>>

NextTerm ==
    \/ \E pit \in BOOLEAN : TermPass(pit)
    \/ TermInspect
    \/ \E bad \in BOOLEAN : TermWaitRequest(bad)
    \/ TermDeny
    \/ TermTarpit
    \/ \E path \in {"missing_data", "return_bad_req", "aborted_xfer"} :
          TermRequestBody(path)
    \/ TermResponseHeaders
    \/ \E err \in {"SN_ERR_PRXCOND", "SN_ERR_SRVCL", "SN_ERR_SRVTO",
                   "SN_ERR_CLICL"} : TermResponse(err)
    \/ \E err \in {"SN_ERR_CLICL", "SN_ERR_SRVTO", "SN_ERR_SRVCL",
                   "SN_ERR_INTERNAL"}, finst \in {"SN_FINST_Q", "SN_FINST_C"} :
          TermServerError(err, finst)
    \/ \E f \in {"CF_READ_ERROR", "CF_READ_TIMEOUT", "CF_SHUTR", "CF_SHUTW"} :
          TermChannel(f)

SpecTerm == InitTerm /\ [][NextTerm]_vars

\* C38: within one transaction the error-cause flags (SN_ERR_MASK) and the
\* phase flags (SN_FINST_MASK) of the session are written at most once:
\* once a cause or a phase is recorded, no later error path in any
\* analyser overwrites it.  The cause and the phase are those the first
\* error path recorded, whatever the number of error paths taken.
C38_WrittenOnce ==
    /\ Cardinality(s.flags.err) <= 1
    /\ Cardinality(s.flags.finst) <= 1
    /\ Term.paths > 0 /\ Term.err # {} => s.flags.err = Term.err
    /\ Term.paths > 0 /\ Term.finst # {} => s.flags.finst = Term.finst

\* two error paths were taken, the second with another cause than the first
C38_Witness ==
    /\ Term.paths = 2
    /\ s.flags.err = {"SN_ERR_SRVTO"}
    /\ s.flags.finst = {"SN_FINST_C"}
    /\ s.txn.req.msg_state = "ERROR"
    /\ s.txn.status = 503
    /\ "CF_SHUTW" \in s.req.flags

(***************************************************************************)
(* Messages with a Content-Length that is not valid.                       *)
(***************************************************************************)
\* a value of Content-Length is empty, not a number or negative, or two
\* values differ
BadContentLength ==
    \/ \E k \in 1..Len(Frame.cls) : Frame.cls[k] \in {"", "x", "-1"}
    \/ \E j \in 1..Len(Frame.cls), k \in 1..Len(Frame.cls) :
          Frame.cls[j] # Frame.cls[k]

\* the message was rejected: a 400 for a request, a 502 for a response, and
\* the analysers of its channel are gone
LengthRejected ==
    /\ Frame.bad
    /\ IF Frame.dir = "req"
       THEN /\ s.txn.status = 400 /\ s.req.analysers = {}
            /\ msg.msg_state = "ERROR"
       ELSE s.txn.status = 502 /\ s.rep.analysers = {}
    /\ s.rep.o > 0

\* C39 as stated: a message whose Content-Length is empty, not a number,
\* negative, or given twice with different values is never forwarded: such
\* a request is rejected with a 400 and such a response with a 502.
C39_BadLength ==
    Frame.ran /\ BadContentLength => LengthRejected

\* Content-Length is looked at: the message is not a HTTP/1.1 message with
\* a chunked Transfer-Encoding, nor a response that cannot have a body
LengthLooked ==
    /\ ~(Frame.ver11 /\ HasChunked)
    /\ ~(Frame.dir = "rsp" /\ NoBodyPossible(Frame.meth, Frame.status))

\* C39 as the code has it: the message is rejected, a request with a 400
\* and a response with a 502, when its Content-Length is looked at: a
\* HTTP/1.1 message with a chunked Transfer-Encoding, and a response to
\* HEAD or with status 1xx, 204 or 304, pass whatever their Content-Length.
C39_BadLengthLooked ==
    Frame.ran =>
       /\ BadContentLength /\ LengthLooked => LengthRejected
       /\ Frame.bad => BadContentLength /\ LengthLooked
       /\ ~Frame.bad => s.txn.status \notin {400, 502}

\* a response with two values of Content-Length that differ
C39_Witness ==
    /\ Frame.ran /\ Frame.dir = "rsp" /\ Frame.ver11
    /\ Frame.tes = <<"gzip">> /\ Frame.cls = <<"2", "0">>
    /\ Frame.meth = "GET" /\ Frame.status = 200
    /\ LengthRejected

(***************************************************************************)
(* The parser called whatever the state of the message: the analysers      *)
(* call it on a message that is still in its headers, other callers may    *)
(* call it again on a message it has left in error.                        *)
(***************************************************************************)
Again == hist.again

\* the parser is called on the bytes <b> with <out> bytes of pending output
\* and leaves <r>
ParserCalled(b, out, r) ==
    /\ msg' = r.m
    /\ idx' = r.idx
    /\ buf' = r.buf
    /\ hist' = [hist EXCEPT
                   !.scan = Scanned(msg, b, r),
                   !.again = IF msg.msg_state = "ERROR"
                             THEN [ran |-> TRUE, next0 |-> msg.next,
                                   idx0 |-> idx]
                             ELSE @]

\* a read delivers a piece (a byte at a time here), then the parser is
\* called
AgainRecv(piece) ==
    /\ Streams(stream \o piece)
    /\ \E r \in {http_msg_analyzer(msg, idx, buf \o piece, o)} :
          ParserCalled(buf \o piece, o, r)
    /\ stream' = stream \o piece
    /\ UNCHANGED <<buf_p, o, first, ctx, s, backend>>

\* the parser is called again on the same bytes of a message in error
AgainCall ==
    /\ msg.msg_state = "ERROR"
    /\ \E r \in {http_msg_analyzer(msg, idx, buf, o)} :
          ParserCalled(buf, o, r)
    /\ UNCHANGED <<buf_p, o, stream, first, ctx, s, backend>>

\* the pending output leaves the buffer, then the parser is called
AgainFlush ==
    /\ o > 0
    /\ o' = 0
    /\ \E r \in {http_msg_analyzer(msg, idx, buf, 0)} :
          ParserCalled(buf, 0, r)
    /\ UNCHANGED <<buf_p, stream, first, ctx, s, backend>>

NextAgain ==
    \/ \E c \in Bytes : AgainRecv(<<c>>)
    \/ AgainCall
    \/ AgainFlush

SpecAgain == InitParser /\ [][NextAgain]_vars

\* C40: once a message is in state ERROR, further calls to the message
\* parser leave it in ERROR and add no entry to the header index (the index
\* and the offset next are those the call was entered with).
C40_ErrorSticks ==
    Again.ran =>
       /\ msg.msg_state = "ERROR"
       /\ idx = Again.idx0
       /\ msg.next = Again.next0

\* the parser was called on a message in error with bytes it had not read
C40_Witness ==
    /\ Again.ran
    /\ msg.msg_state = "ERROR"
    /\ msg.next + 1 < Len(buf)

====
